---------------------------- MODULE Spec2Model ----------------------------
(***************************************************************************)
(* A model of the two dumpers of asn1-cbor-tools:                          *)
(*   src/src/dumpasn1.rs  Asn1Dumper  (get_item, print_asn1_object, ...)   *)
(*   src/src/dumpcbor.rs  CborDumper  (read_item, print_item, ...)         *)
(* The byte source is fixed by Init; every action is one step of the       *)
(* depth-first traversal the code performs (one loop iteration of          *)
(* dump_asn1 / print_constructed, one call or return of read_item).        *)
(***************************************************************************)
EXTENDS Integers, Sequences, FiniteSets, TLC

VARIABLES
    dumper,       \* "asn1" or "cbor": which binary runs
    src,          \* the leading bytes of the byte source
    pad,          \* number of PadByte bytes that follow src in the source
    config,       \* Config of the running dumper
    rd,           \* bytes consumed from the reader so far
    f_pos,        \* Asn1Dumper.f_pos
    offset,       \* CborDumper.offset
    no_errors,    \* no_errors of the running dumper
    no_warnings,  \* no_warnings of the running dumper
    stack,        \* active print_constructed calls (Asn1Dumper)
    cstack,       \* active read_item calls that wait for a child (CborDumper)
    ret,          \* <<>> or <<r>>: the result a read_item call just returned
    item_count,   \* dump_cbor's item_count
    status,       \* "running", "ok", "err" (io::Error returned) or "panic"
    reports,      \* every position print_indent was given: [pos, consumed]
    last,         \* what the last step did (its unit, where it started)
    args,         \* the argument list given to parse_args_from
    parsed        \* what parse_args_from returned for args

vars == << dumper, src, pad, config, rd, f_pos, offset, no_errors, no_warnings,
           stack, cstack, ret, item_count, status, reports, last, args,
           parsed >>

-----------------------------------------------------------------------------
(* Bounds of the model *)

\* longest src of an ASN.1 run
MaxLen == 4
\* longest src of a CBOR run
MaxCborLen == 4
\* arguments after the program name
MaxArgs == 3

-----------------------------------------------------------------------------
(* Constants of dumpasn1.rs *)

CLASS_MASK == 192
UNIVERSAL == 0
TAG_MASK == 31
EOC == 0
BOOLEAN_TAG == 1
INTEGER == 2
BITSTRING == 3
OCTETSTRING == 4
NULLTAG == 5
OID == 6
ENUMERATED == 10
UTF8STRING == 12
NUMERICSTRING == 18
PRINTABLESTRING == 19
T61STRING == 20
VIDEOTEXSTRING == 21
IA5STRING == 22
UTCTIME == 23
GENERALIZEDTIME == 24
VISIBLESTRING == 26
GENERALSTRING == 27
UNIVERSALSTRING == 28
BMPSTRING == 30
LEN_XTND == 128
LEN_MASK == 127
\* dump_hex / print_string read at most this many bytes for display
DisplayCap == 384
\* dump_hex starts a new line (and prints the offset again) every 16 bytes
HexLine == 16
\* Config::default().max_nest_level
DefaultMaxNest == 100

(* Constants of dumpcbor.rs *)

MAJOR_UNSIGNED == 0
MAJOR_NEGATIVE == 1
MAJOR_BYTES == 2
MAJOR_TEXT == 3
MAJOR_ARRAY == 4
MAJOR_MAP == 5
MAJOR_TAG == 6
MAJOR_SIMPLE == 7
AI_1BYTE == 24
AI_2BYTES == 25
AI_4BYTES == 26
AI_8BYTES == 27
AI_INDEFINITE == 31
SIMPLE_FALSE == 20
SIMPLE_TRUE == 21
SIMPLE_NULL == 22
SIMPLE_UNDEFINED == 23
\* print_item shows at most this many bytes of a text value
TextCap == 80

-----------------------------------------------------------------------------
(* The byte source: src followed by pad bytes PadByte.  A Read whose
   read() returns 0 at the end and whose read_exact() fails there. *)

PadByte == 255

InputLen == Len(src) + pad

\* the i-th byte of the source, 1-based
ByteAt(i) == IF i <= Len(src) THEN src[i] ELSE PadByte

\* n more bytes can be read after r bytes were consumed
Avail(r, n) == r + n <= InputLen

\* the n bytes that follow the first r
Bytes(r, n) == [i \in 1..n |-> ByteAt(r + i)]

RECURSIVE BigEndian(_)
\* u64::from_be_bytes and friends, for byte sequences whose value is small
BigEndian(bs) ==
    IF bs = <<>> THEN 0
    ELSE BigEndian(SubSeq(bs, 1, Len(bs) - 1)) * 256 + bs[Len(bs)]

Min(a, b) == IF a < b THEN a ELSE b

-----------------------------------------------------------------------------
(* dumpasn1.rs: Asn1Item and get_item *)

\* Asn1Item::new()
NewAsn1Item ==
    [ id |-> 0, tag |-> 0, length |-> 0, indefinite |-> FALSE,
      non_canonical |-> FALSE, header |-> <<>>, header_size |-> 0 ]

\* a get_item that hands back a header without having consumed it
GetItemResultInPlace(res, item, r, fp) ==
    [ res |-> res, item |-> item, rd |-> rd, f_pos |-> f_pos ]

\* what a get_item call gives back: its Result, and the dumper after it
GetItemResult(res, item, r, fp) ==
    [ res |-> res, item |-> item, rd |-> r, f_pos |-> fp ]

\* a get_item that takes the end of the source inside a header for a clean
\* end of input
GetItemTruncatedAsNone(fp) == GetItemResult("None", NewAsn1Item, InputLen, fp)

\* read_exact met the end of the source: the source is drained, Err is returned
GetItemTruncated(fp) == GetItemResult("Err", NewAsn1Item, InputLen, fp)

RECURSIVE LongTag(_, _, _, _)
\* the long form tag loop of get_item: header is what was read so far,
\* tag_num a u32; stops after a byte without the continuation bit or when
\* the header holds 5 bytes
LongTag(r, fp, tag_num, header) ==
    IF ~Avail(r, 1)
    THEN [ ok |-> FALSE, rd |-> InputLen, f_pos |-> fp, tag_num |-> tag_num,
           header |-> header ]
    ELSE LET byte == ByteAt(r + 1)
             hdr  == Append(header, byte)
             \* (tag_num << 7) | (byte & 0x7F), in 32 bits
             tn   == ((tag_num % (2 ^ 25)) * 128) + (byte % 128)
         IN  IF byte < LEN_XTND \/ Len(hdr) >= 5
             THEN [ ok |-> TRUE, rd |-> r + 1, f_pos |-> fp + 1,
                    tag_num |-> tn, header |-> hdr ]
             ELSE LongTag(r + 1, fp + 1, tn, hdr)

\* a length field whose non_canonical mark is set for every long form
GetLengthMarkingLongForm(r, fp, item, header) ==
    IF ~Avail(r, 1) THEN GetItemTruncated(fp)
    ELSE
    LET length == ByteAt(r + 1)
        hdr    == Append(header, length)
        fp2    == fp + 2
        r2     == r + 1
        num_octets == length % 128
        Done(it, h, rr, ff) ==
            GetItemResult("Some",
                          [it EXCEPT !.header = h, !.header_size = Len(h)],
                          rr, ff)
    IN  IF length >= LEN_XTND
        THEN IF num_octets = 0
             THEN Done([item EXCEPT !.indefinite = TRUE, !.length = 0],
                       hdr, r2, fp2)
             ELSE IF num_octets > 4
             THEN GetItemResult("Err", NewAsn1Item, r2, fp2)
             ELSE IF ~Avail(r2, num_octets)
             THEN GetItemTruncated(fp2)
             ELSE LET octets == Bytes(r2, num_octets)
                      len    == BigEndian(octets)
                  IN  Done([item EXCEPT !.length = len,
                                        !.non_canonical = TRUE],
                           hdr \o octets, r2 + num_octets, fp2 + num_octets)
        ELSE Done([item EXCEPT !.length = length], hdr, r2, fp2)

\* the length field of get_item, after the tag: r bytes consumed, f_pos fp
GetLength(r, fp, item, header) ==
    IF ~Avail(r, 1) THEN GetItemTruncated(fp)
    ELSE
    LET length == ByteAt(r + 1)
        hdr    == Append(header, length)
        fp2    == fp + 2                      \* tag + length byte
        r2     == r + 1
        num_octets == length % 128            \* length & LEN_MASK
        Done(it, h, rr, ff) ==
            GetItemResult("Some",
                          [it EXCEPT !.header = h, !.header_size = Len(h)],
                          rr, ff)
    IN  IF length >= LEN_XTND
        THEN IF num_octets = 0
             THEN Done([item EXCEPT !.indefinite = TRUE, !.length = 0],
                       hdr, r2, fp2)
             ELSE IF num_octets > 4
             THEN GetItemResult("Err", NewAsn1Item, r2, fp2)  \* Length too long
             ELSE IF ~Avail(r2, num_octets)
             THEN GetItemTruncated(fp2)
             ELSE LET octets == Bytes(r2, num_octets)
                      len    == BigEndian(octets)
                  IN  Done([item EXCEPT !.length = len,
                                        !.non_canonical = (len < 128)],
                           hdr \o octets, r2 + num_octets, fp2 + num_octets)
        ELSE Done([item EXCEPT !.length = length], hdr, r2, fp2)

\* get_item: reads one tag + length from the source at r
get_item(r, fp) ==
    IF ~Avail(r, 1)
    THEN GetItemResult("None", NewAsn1Item, r, fp)      \* read() returned 0
    ELSE
    LET tag == ByteAt(r + 1)
        id  == tag - (tag % 32)                         \* tag & !TAG_MASK
        lt  == IF tag % 32 = TAG_MASK
               THEN LongTag(r + 1, fp, 0, <<tag>>)
               ELSE [ ok |-> TRUE, rd |-> r + 1, f_pos |-> fp,
                      tag_num |-> tag % 32, header |-> <<tag>> ]
        item == [NewAsn1Item EXCEPT !.id = id,
                                    !.tag = lt.tag_num % 256]  \* as u8
    IN  IF ~lt.ok THEN GetItemTruncated(lt.f_pos)
        ELSE GetLength(lt.rd, lt.f_pos, item, lt.header)

-----------------------------------------------------------------------------
(* dumpasn1.rs: the readers of primitive content.  Each gives the io::Result
   ("Ok", "Err", or "Panic" when the call panics), the reader and f_pos
   after it, and the positions print_indent printed meanwhile. *)

\* what a reader prints after the tag name: kind names the rendering, bytes
\* the bytes or characters shown, value the number or numbers shown
Output(kind, bytes, value) ==
    [ kind |-> kind, bytes |-> bytes, value |-> value ]

NoOutput == Output("none", <<>>, <<>>)

ReadResult(res, r, fp, reps) ==
    [ res |-> res, rd |-> r, f_pos |-> fp, reports |-> reps,
      out |-> NoOutput ]

\* a reader's result, with what it printed
Shown(result, out) == [ result EXCEPT !.out = out ]

\* one call of print_indent: the offset it prints and what was consumed then
Report(fp, r) == [ pos |-> fp, consumed |-> r ]

\* the lines after the first of dump_hex's output: print_indent at every
\* i > 0 with i % 16 = 0, the buffer already read, f_pos not yet advanced
HexLineReports(r, fp, bytes_to_read) ==
    IF bytes_to_read <= 0 THEN <<>>
    ELSE [ k \in 1..((bytes_to_read - 1) \div HexLine) |->
             Report(fp, r + bytes_to_read) ]

\* the display cap shared by dump_hex and print_string
BytesToRead(length) ==
    Min(length, IF config.print_all_data THEN length ELSE DisplayCap)

dump_hex(r, fp, length) ==
    LET bytes_to_read == BytesToRead(length)
        reps == HexLineReports(r, fp, bytes_to_read)
    IN  IF bytes_to_read < 0
        THEN ReadResult("Panic", r, fp, <<>>)    \* vec![0u8; -1 as usize]
        ELSE IF ~Avail(r, bytes_to_read)
        THEN ReadResult("Err", InputLen, fp, <<>>)
        ELSE IF length > bytes_to_read /\ ~config.print_all_data
                /\ ~Avail(r + bytes_to_read, length - bytes_to_read)
        THEN ReadResult("Err", InputLen, fp, reps)
        ELSE Shown(ReadResult("Ok", r + length, fp + length, reps),
                   Output("hex", Bytes(r, bytes_to_read), <<>>))

\* print_string shows a byte as itself when it is ASCII and not a control
\* character, as '.' otherwise
ShownChar(byte) == IF byte >= 32 /\ byte <= 126 THEN byte ELSE 46

print_string(r, fp, length) ==
    LET bytes_to_read == BytesToRead(length)
    IN  IF ~Avail(r, bytes_to_read)
        THEN ReadResult("Err", InputLen, fp, <<>>)
        ELSE IF length > bytes_to_read /\ ~config.print_all_data
                /\ ~Avail(r + bytes_to_read, length - bytes_to_read)
        THEN ReadResult("Err", InputLen, fp, <<>>)
        ELSE Shown(ReadResult("Ok", r + length, fp + length, <<>>),
                   Output("text",
                          [ i \in 1..bytes_to_read |->
                              ShownChar(ByteAt(r + i)) ], <<>>))

\* let mut value: i64 = 0
Zero64 == [ i \in 1..8 |-> 0 ]

\* value << bits and value >> bits of an i64 kept as its 8 bytes, for a
\* number of bits that is a multiple of 8
Shl64(v, bits) ==
    [ i \in 1..8 |-> IF i + bits \div 8 <= 8 THEN v[i + bits \div 8] ELSE 0 ]

Sar64(v, bits) ==
    [ i \in 1..8 |-> IF i <= bits \div 8
                     THEN (IF v[1] >= 128 THEN 255 ELSE 0)
                     ELSE v[i - bits \div 8] ]

RECURSIVE IntegerBytes(_, _, _)
\* print_integer: for byte in &buffer { value = (value << 8) | byte }
IntegerBytes(buffer, i, value) ==
    IF i > Len(buffer) THEN value
    ELSE IntegerBytes(buffer, i + 1,
                      [ Shl64(value, 8) EXCEPT ![8] = buffer[i] ])

\* an integer printed without the sign extension
IntegerValueUnsigned(buffer) == IntegerBytes(buffer, 1, Zero64)

\* print_integer: the i64 printed for a buffer of 1..8 bytes
IntegerValue(buffer) ==
    LET value == IntegerBytes(buffer, 1, Zero64)
        is_negative == buffer[1] >= 128
        shift == (8 - Len(buffer)) * 8
    IN  IF is_negative THEN Sar64(Shl64(value, shift), shift) ELSE value

print_integer(r, fp, length) ==
    IF length > 8 THEN dump_hex(r, fp, length)
    ELSE IF ~Avail(r, length) THEN ReadResult("Err", InputLen, fp, <<>>)
    ELSE IF length = 0 THEN ReadResult("Panic", r, fp, <<>>)  \* buffer[0]
    ELSE Shown(ReadResult("Ok", r + length, fp + length, <<>>),
               Output("int", <<>>, IntegerValue(Bytes(r, length))))

RECURSIVE OidGroup(_, _, _)
\* print_oid, inner loop: the bytes of one component from buffer[i] on
OidGroup(buffer, i, value) ==
    IF i > Len(buffer) THEN [ i |-> i, value |-> value ]
    ELSE LET v == (value * 128) + (buffer[i] % 128) IN
         IF buffer[i] < LEN_XTND THEN [ i |-> i + 1, value |-> v ]
         ELSE OidGroup(buffer, i + 1, v)

RECURSIVE OidRest(_, _)
\* print_oid, outer loop: the components printed from buffer[i] on
OidRest(buffer, i) ==
    IF i > Len(buffer) THEN <<>>
    ELSE LET g == OidGroup(buffer, i, 0) IN
         << g.value >> \o OidRest(buffer, g.i)

\* components printed one per byte, whatever the continuation bits
OidComponentsFlat(buffer) ==
    << buffer[1] \div 40, buffer[1] % 40 >>
       \o [ i \in 1..(Len(buffer) - 1) |-> buffer[i + 1] % 128 ]

\* print_oid: the numbers printed, separated by dots
OidComponents(buffer) ==
    << buffer[1] \div 40, buffer[1] % 40 >> \o OidRest(buffer, 2)

print_oid(r, fp, length) ==
    IF ~Avail(r, length) THEN ReadResult("Err", InputLen, fp, <<>>)
    ELSE IF length = 0                                        \* " (empty)"
    THEN Shown(ReadResult("Ok", r, fp, <<>>), Output("empty_oid", <<>>, <<>>))
    ELSE Shown(ReadResult("Ok", r + length, fp + length, <<>>),
               Output("oid", <<>>, OidComponents(Bytes(r, length))))

\* BOOLEAN and the unused-bits byte of BIT STRING: read_exact of one byte
ReadOneByte(r, fp) ==
    IF ~Avail(r, 1) THEN ReadResult("Err", InputLen, fp, <<>>)
    ELSE Shown(ReadResult("Ok", r + 1, fp + 1, <<>>),
               Output("byte", << ByteAt(r + 1) >>, <<>>))

StringTags ==
    { UTF8STRING, PRINTABLESTRING, IA5STRING, VISIBLESTRING, GENERALSTRING,
      NUMERICSTRING, T61STRING, VIDEOTEXSTRING, UTCTIME, GENERALIZEDTIME,
      BMPSTRING, UNIVERSALSTRING }

\* the match on item.tag of print_asn1_object, for a primitive item
PrintPrimitive(item, r, fp) ==
    CASE item.tag = BOOLEAN_TAG -> ReadOneByte(r, fp)
      [] item.tag \in {INTEGER, ENUMERATED} -> print_integer(r, fp, item.length)
      [] item.tag = BITSTRING ->
            LET unused == ReadOneByte(r, fp)
            IN  IF unused.res # "Ok" THEN unused
                ELSE dump_hex(unused.rd, unused.f_pos, item.length - 1)
      [] item.tag = OCTETSTRING ->
            IF config.check_charset /\ item.length > 0 /\ item.length < 1024
            THEN print_string(r, fp, item.length)
            ELSE dump_hex(r, fp, item.length)
      [] item.tag = NULLTAG ->
            Shown(ReadResult("Ok", r, fp, <<>>), Output("null", <<>>, <<>>))
      [] item.tag = OID -> print_oid(r, fp, item.length)
      [] item.tag \in StringTags -> print_string(r, fp, item.length)
      [] OTHER -> dump_hex(r, fp, item.length)

\* item.id & CLASS_MASK
ClassOf(item) == item.id - (item.id % (256 - CLASS_MASK))

\* (item.id & FORM_MASK) == CONSTRUCTED
IsConstructed(item) == (item.id \div 32) % 2 = 1

-----------------------------------------------------------------------------
(* dumpasn1.rs: dump_asn1, print_constructed and print_asn1_object as steps.
   stack holds one frame per print_constructed call that is inside its loop;
   with an empty stack the loop of dump_asn1 runs. *)

NoFrame == [ kind |-> "none", end_pos |-> 0, level |-> 0, item |-> NewAsn1Item ]

\* what a step did: op names the step, item the unit it was about, frame the
\* print_constructed call it ended, start/body the reader position before the
\* unit's header and after it, fbody f_pos after the header
Last(op, item, frame, start, body, fbody, level) ==
    [ op |-> op, item |-> item, frame |-> frame, start |-> start,
      body |-> body, fbody |-> fbody, level |-> level, out |-> NoOutput ]

Top == stack[Len(stack)]
Pop == SubSeq(stack, 1, Len(stack) - 1)

\* the level print_asn1_object is called with for the next unit
ChildLevel == IF stack = <<>> THEN 0 ELSE Top.level + 1

\* the dumper is about to call get_item: in dump_asn1's loop, or in a loop of
\* print_constructed whose condition holds
Asn1AtGetItem ==
    /\ dumper = "asn1"
    /\ status = "running"
    /\ IF stack = <<>> THEN TRUE
       ELSE IF Top.kind = "indef" THEN TRUE
       ELSE f_pos < Top.end_pos

\* the sub_item of an indefinite-length loop that ends it
IsEndOfContents(item) == item.tag = EOC /\ item.length = 0

\* the unit get_item returned goes to print_asn1_object
Asn1ToObject(g) ==
    /\ g.res = "Some"
    /\ ~(stack # <<>> /\ Top.kind = "indef" /\ IsEndOfContents(g.item))

Asn1Unchanged == UNCHANGED << dumper, src, pad, config, offset, no_errors,
                              no_warnings, cstack, ret, item_count, args,
                              parsed >>

\* dump_asn1: get_item returns None, "Parsing complete."
DumpAsn1Complete ==
    /\ Asn1AtGetItem
    /\ stack = <<>>
    /\ LET g == get_item(rd, f_pos) IN
        /\ g.res = "None"
        /\ status' = "ok"
        /\ last' = Last("complete", NewAsn1Item, NoFrame, rd, rd, f_pos, 0)
    /\ UNCHANGED << rd, f_pos, stack, reports >>
    /\ Asn1Unchanged

\* get_item returns Err: `?` hands it up through every caller
GetItemError ==
    /\ Asn1AtGetItem
    /\ LET g == get_item(rd, f_pos) IN
        /\ g.res = "Err"
        /\ status' = "err"
        /\ rd' = g.rd
        /\ f_pos' = g.f_pos
        /\ last' = Last("hdr_err", NewAsn1Item, NoFrame, rd, g.rd, g.f_pos,
                        ChildLevel)
    /\ UNCHANGED << stack, reports >>
    /\ Asn1Unchanged

\* print_constructed: get_item returns None inside either loop; the loop ends,
\* print_indent(level), "}", Ok
ConstructedEof ==
    /\ Asn1AtGetItem
    /\ stack # <<>>
    /\ LET g == get_item(rd, f_pos) IN
        /\ g.res = "None"
        /\ stack' = Pop
        /\ reports' = Append(reports, Report(f_pos, rd))
        /\ last' = Last("eof_close", Top.item, Top, rd, rd, f_pos, Top.level)
    /\ UNCHANGED << rd, f_pos, status >>
    /\ Asn1Unchanged

\* print_constructed, indefinite length: the end-of-contents unit ends the loop
ConstructedEoc ==
    /\ Asn1AtGetItem
    /\ stack # <<>>
    /\ Top.kind = "indef"
    /\ LET g == get_item(rd, f_pos) IN
        /\ g.res = "Some"
        /\ IsEndOfContents(g.item)
        /\ rd' = g.rd
        /\ f_pos' = g.f_pos
        /\ stack' = Pop
        /\ reports' = Append(reports, Report(g.f_pos, g.rd))
        /\ last' = Last("eoc_close", g.item, Top, rd, g.rd, g.f_pos, Top.level)
    /\ UNCHANGED status
    /\ Asn1Unchanged

\* print_constructed, definite length: f_pos < end_pos fails, the loop ends
ConstructedEnd ==
    /\ dumper = "asn1"
    /\ status = "running"
    /\ stack # <<>>
    /\ Top.kind = "def"
    /\ ~(f_pos < Top.end_pos)
    /\ stack' = Pop
    /\ reports' = Append(reports, Report(f_pos, rd))
    /\ last' = Last("end_close", Top.item, Top, rd, rd, f_pos, Top.level)
    /\ UNCHANGED << rd, f_pos, status >>
    /\ Asn1Unchanged

\* print_asn1_object: level > max_nest_level, return Ok(())
ObjectSkipped ==
    /\ Asn1AtGetItem
    /\ LET g == get_item(rd, f_pos) IN
        /\ Asn1ToObject(g)
        /\ ChildLevel > config.max_nest_level
        /\ rd' = g.rd
        /\ f_pos' = g.f_pos
        /\ last' = Last("skip", g.item, NoFrame, rd, g.rd, g.f_pos, ChildLevel)
    /\ UNCHANGED << stack, status, reports >>
    /\ Asn1Unchanged

\* print_asn1_object of a constructed item: print_constructed prints "{}" for
\* a definite length of 0 and enters its loop otherwise
ObjectConstructed ==
    /\ Asn1AtGetItem
    /\ LET g == get_item(rd, f_pos) IN
        /\ Asn1ToObject(g)
        /\ ChildLevel <= config.max_nest_level
        /\ IsConstructed(g.item)
        /\ rd' = g.rd
        /\ f_pos' = g.f_pos
        /\ reports' = Append(reports, Report(g.f_pos, g.rd))
        /\ stack' =
             IF g.item.length = 0 /\ ~g.item.indefinite THEN stack
             ELSE Append(stack,
                    [ kind |-> IF g.item.indefinite THEN "indef" ELSE "def",
                      end_pos |-> g.f_pos + g.item.length,
                      level |-> ChildLevel, item |-> g.item ])
        /\ last' = Last("cons", g.item, NoFrame, rd, g.rd, g.f_pos, ChildLevel)
    /\ UNCHANGED status
    /\ Asn1Unchanged

\* print_asn1_object of a primitive item: the reader its tag selects
ObjectPrimitive ==
    /\ Asn1AtGetItem
    /\ LET g == get_item(rd, f_pos) IN
        /\ Asn1ToObject(g)
        /\ ChildLevel <= config.max_nest_level
        /\ ~IsConstructed(g.item)
        /\ LET p == PrintPrimitive(g.item, g.rd, g.f_pos) IN
            /\ rd' = p.rd
            /\ f_pos' = p.f_pos
            /\ reports' = Append(reports, Report(g.f_pos, g.rd)) \o p.reports
            /\ status' = CASE p.res = "Ok" -> "running"
                           [] p.res = "Err" -> "err"
                           [] OTHER -> "panic"
        /\ last' = [ Last("prim", g.item, NoFrame, rd, g.rd, g.f_pos,
                          ChildLevel)
                       EXCEPT !.out = PrintPrimitive(g.item, g.rd, g.f_pos).out ]
    /\ UNCHANGED stack
    /\ Asn1Unchanged

NextAsn1 ==
    \/ DumpAsn1Complete
    \/ GetItemError
    \/ ConstructedEof
    \/ ConstructedEoc
    \/ ConstructedEnd
    \/ ObjectSkipped
    \/ ObjectConstructed
    \/ ObjectPrimitive

-----------------------------------------------------------------------------
(* dumpcbor.rs: values.  A u64 is kept as its 8 big-endian bytes, an i64 as
   the 8 bytes of its two's complement pattern. *)

\* n as u64, for 0 <= n < 2^31
U64(n) ==
    << 0, 0, 0, 0, (n \div 16777216) % 256, (n \div 65536) % 256,
       (n \div 256) % 256, n % 256 >>

\* u64::MAX
U64Max == << 255, 255, 255, 255, 255, 255, 255, 255 >>

\* the u64 whose low bytes are bs (from_be_bytes of 1, 2, 4 or 8 bytes as u64)
U64FromBytes(bs) == [ i \in 1..8 |-> IF i <= 8 - Len(bs) THEN 0
                                     ELSE bs[i - (8 - Len(bs))] ]

\* the value is below 2^31
U64Fits(v) == v[1] = 0 /\ v[2] = 0 /\ v[3] = 0 /\ v[4] = 0 /\ v[5] < 128

\* the value of a u64 that is below 2^31
U64Nat(v) == BigEndian(SubSeq(v, 5, 8))

\* -1 - (val as i64): in two's complement, the complement of every bit
NegativeOf(v) == [ i \in 1..8 |-> 255 - v[i] ]

\* i64 pattern: the value is below zero
I64IsNegative(v) == v[1] >= 128

\* f16_to_f32: the fields of the f32 bit pattern (sign << 31 | exp << 23 | mant)
f16_to_f32(bits) ==
    LET sign == (bits \div 32768) % 2
        exp  == (bits \div 1024) % 32
        mant == bits % 1024
    IN  IF exp = 0
        THEN IF mant = 0
             THEN [ sign |-> sign, exp |-> 0, mant |-> 0 ]
             ELSE [ sign |-> sign, exp |-> 127 - 15, mant |-> mant * 8192 ]
        ELSE IF exp = 31
        THEN IF mant = 0
             THEN [ sign |-> sign, exp |-> 255, mant |-> 0 ]
             ELSE [ sign |-> sign, exp |-> 255, mant |-> mant * 8192 ]
        ELSE [ sign |-> sign, exp |-> exp + 127 - 15, mant |-> mant * 8192 ]

NoFloat == [ sign |-> 0, exp |-> 0, mant |-> 0 ]

\* CborItem::new(major_type, additional_info, value); value is spread over
\* t (the variant of CborValue), n (its integer), b (its bytes or text),
\* items (its children; pairs <<key, value>> for a map), f (its Float16)
CborItem(major_type, additional_info, t, n, b, items) ==
    [ major_type |-> major_type, additional_info |-> additional_info,
      t |-> t, n |-> n, b |-> b, items |-> items, f |-> NoFloat,
      subst |-> FALSE ]

\* Ok(None) of read_item
NoneItem == CborItem(0, 0, "None", U64(0), <<>>, <<>>)

IsCont(b) == b >= 128 /\ b <= 191

RECURSIVE Utf8Valid(_)
\* String::from_utf8(bytes).is_ok()
Utf8Valid(bs) ==
    IF bs = <<>> THEN TRUE
    ELSE
    LET b1 == bs[1]
        n  == Len(bs)
        Rest(k) == SubSeq(bs, k + 1, n)
    IN  IF b1 < 128 THEN Utf8Valid(Rest(1))
        ELSE IF b1 >= 194 /\ b1 <= 223
        THEN n >= 2 /\ IsCont(bs[2]) /\ Utf8Valid(Rest(2))
        ELSE IF b1 >= 224 /\ b1 <= 239
        THEN /\ n >= 3
             /\ IsCont(bs[2]) /\ IsCont(bs[3])
             /\ (b1 = 224 => bs[2] >= 160)
             /\ (b1 = 237 => bs[2] <= 159)
             /\ Utf8Valid(Rest(3))
        ELSE IF b1 >= 240 /\ b1 <= 244
        THEN /\ n >= 4
             /\ IsCont(bs[2]) /\ IsCont(bs[3]) /\ IsCont(bs[4])
             /\ (b1 = 240 => bs[2] >= 144)
             /\ (b1 = 244 => bs[2] <= 143)
             /\ Utf8Valid(Rest(4))
        ELSE FALSE

\* stands for the text format!("<invalid UTF-8: {}>", e): "<invalid UTF-8>"
PlaceholderText ==
    << 60, 105, 110, 118, 97, 108, 105, 100, 32, 85, 84, 70, 45, 56, 62 >>

-----------------------------------------------------------------------------
(* dumpcbor.rs: read_additional and the head of read_item *)

\* how many bytes follow the initial byte for additional info ai
AdditionalBytes(ai) ==
    CASE ai = AI_1BYTE -> 1
      [] ai = AI_2BYTES -> 2
      [] ai = AI_4BYTES -> 4
      [] ai = AI_8BYTES -> 8
      [] OTHER -> 0

\* a read_additional that takes the reserved values 28..30 as indefinite
read_additional_lenient(r, off, ai) ==
    IF ai <= 23
    THEN [ ok |-> TRUE, val |-> U64(ai), rd |-> r, offset |-> off ]
    ELSE IF ai \in { AI_1BYTE, AI_2BYTES, AI_4BYTES, AI_8BYTES }
    THEN LET k == AdditionalBytes(ai) IN
         IF ~Avail(r, k)
         THEN [ ok |-> FALSE, val |-> U64(0), rd |-> InputLen, offset |-> off ]
         ELSE [ ok |-> TRUE, val |-> U64FromBytes(Bytes(r, k)),
                rd |-> r + k, offset |-> off + k ]
    ELSE [ ok |-> TRUE, val |-> U64Max, rd |-> r, offset |-> off ]

\* read_additional: ok FALSE for Err; val the u64 returned
read_additional(r, off, ai) ==
    IF ai <= 23
    THEN [ ok |-> TRUE, val |-> U64(ai), rd |-> r, offset |-> off ]
    ELSE IF ai \in { AI_1BYTE, AI_2BYTES, AI_4BYTES, AI_8BYTES }
    THEN LET k == AdditionalBytes(ai) IN
         IF ~Avail(r, k)
         THEN [ ok |-> FALSE, val |-> U64(0), rd |-> InputLen, offset |-> off ]
         ELSE [ ok |-> TRUE, val |-> U64FromBytes(Bytes(r, k)),
                rd |-> r + k, offset |-> off + k ]
    ELSE IF ai = AI_INDEFINITE
    THEN [ ok |-> TRUE, val |-> U64Max, rd |-> r, offset |-> off ]
    ELSE [ ok |-> FALSE, val |-> U64(0), rd |-> r, offset |-> off ]

\* a read_item call that waits for its children: kind names the loop it is in
CborFrame(kind, major_type, additional_info, length) ==
    [ kind |-> kind, major_type |-> major_type,
      additional_info |-> additional_info, length |-> length,
      b |-> <<>>, items |-> <<>>, key |-> <<>> ]

\* what the head of a read_item call does, up to its first recursive call:
\* res is "None" (Ok(None)), "Err", "Panic", "Value" (Ok(Some(item)) without
\* reading a child) or "Open" (frame: the call now reads children)
HeadResult(res, item, frame, r, off, errs) ==
    [ res |-> res, item |-> item, frame |-> frame, rd |-> r, offset |-> off,
      no_errors |-> errs ]

NoCborFrame == CborFrame("none", 0, 0, U64(0))

HeadErr(r, off) == HeadResult("Err", NoneItem, NoCborFrame, r, off, no_errors)

HeadValue(item, r, off) ==
    HeadResult("Value", item, NoCborFrame, r, off, no_errors)

HeadOpen(frame, r, off) ==
    HeadResult("Open", NoneItem, frame, r, off, no_errors)

\* a definite-length branch that gives up on text that is not UTF-8
ReadStringAborting(major, ai, r, off) ==
    LET a == read_additional(r, off, ai) IN
    IF ~a.ok THEN HeadErr(a.rd, a.offset)
    ELSE IF a.val[1] >= 128
    THEN HeadResult("Panic", NoneItem, NoCborFrame, a.rd, a.offset, no_errors)
    ELSE IF ~U64Fits(a.val) \/ ~Avail(a.rd, U64Nat(a.val))
    THEN HeadErr(InputLen, a.offset)
    ELSE
    LET length == U64Nat(a.val)
        bytes  == Bytes(a.rd, length)
        r2     == a.rd + length
        off2   == a.offset + length
    IN  IF major = MAJOR_BYTES
        THEN HeadValue(CborItem(major, ai, "Bytes", U64(0), bytes, <<>>),
                       r2, off2)
        ELSE IF Utf8Valid(bytes)
        THEN HeadValue(CborItem(major, ai, "Text", U64(0), bytes, <<>>),
                       r2, off2)
        ELSE HeadResult("Err", NoneItem, NoCborFrame, r2, off2, no_errors + 1)

\* the definite-length branch of MAJOR_BYTES and MAJOR_TEXT
ReadString(major, ai, r, off) ==
    LET a == read_additional(r, off, ai) IN
    IF ~a.ok THEN HeadErr(a.rd, a.offset)
    ELSE IF a.val[1] >= 128
    THEN HeadResult("Panic", NoneItem, NoCborFrame, a.rd, a.offset, no_errors)
                                            \* vec![0u8; length]: capacity
    ELSE IF ~U64Fits(a.val) \/ ~Avail(a.rd, U64Nat(a.val))
    THEN HeadErr(InputLen, a.offset)        \* read_exact fails
    ELSE
    LET length == U64Nat(a.val)
        bytes  == Bytes(a.rd, length)
        r2     == a.rd + length
        off2   == a.offset + length
    IN  IF major = MAJOR_BYTES
        THEN HeadValue(CborItem(major, ai, "Bytes", U64(0), bytes, <<>>),
                       r2, off2)
        ELSE IF Utf8Valid(bytes)
        THEN HeadValue(CborItem(major, ai, "Text", U64(0), bytes, <<>>),
                       r2, off2)
        ELSE HeadResult("Value",
                 [ CborItem(major, ai, "Text", U64(0), PlaceholderText, <<>>)
                     EXCEPT !.subst = TRUE ],
                 NoCborFrame, r2, off2, no_errors + 1)

\* the definite-length branch of MAJOR_ARRAY and MAJOR_MAP: `for _ in 0..length`
ReadCounted(major, ai, r, off) ==
    LET a == read_additional(r, off, ai)
        t == IF major = MAJOR_ARRAY THEN "Array" ELSE "Map"
    IN  IF ~a.ok THEN HeadErr(a.rd, a.offset)
        ELSE IF a.val = U64(0)
        THEN HeadValue(CborItem(major, ai, t, U64(0), <<>>, <<>>),
                       a.rd, a.offset)
        ELSE HeadOpen(CborFrame(IF major = MAJOR_ARRAY THEN "array_def"
                                ELSE "map_def", major, ai, a.val),
                      a.rd, a.offset)

\* the MAJOR_SIMPLE branch
ReadSimple(ai, r, off) ==
    LET V(t, n) == CborItem(MAJOR_SIMPLE, ai, t, n, <<>>, <<>>)
        Float(t, k) ==
            IF ~Avail(r, k) THEN HeadErr(InputLen, off)
            ELSE HeadValue(
                   [ CborItem(MAJOR_SIMPLE, ai, t, U64(0), Bytes(r, k), <<>>)
                       EXCEPT !.f = IF k = 2
                                    THEN f16_to_f32(BigEndian(Bytes(r, 2)))
                                    ELSE NoFloat ],
                   r + k, off + k)
    IN  CASE ai = SIMPLE_FALSE -> HeadValue(V("Boolean", U64(0)), r, off)
          [] ai = SIMPLE_TRUE -> HeadValue(V("Boolean", U64(1)), r, off)
          [] ai = SIMPLE_NULL -> HeadValue(V("Null", U64(0)), r, off)
          [] ai = SIMPLE_UNDEFINED -> HeadValue(V("Undefined", U64(0)), r, off)
          [] ai = 25 -> Float("Float16", 2)
          [] ai = 26 -> Float("Float32", 4)
          [] ai = 27 -> Float("Float64", 8)
          [] ai = AI_INDEFINITE -> HeadValue(V("Break", U64(0)), r, off)
          [] OTHER ->
                IF ai < 24 THEN HeadValue(V("Simple", U64(ai)), r, off)
                ELSE LET a == read_additional(r, off, ai) IN
                     IF ~a.ok THEN HeadErr(a.rd, a.offset)
                     ELSE HeadValue(V("Simple", U64(a.val[8])),   \* as u8
                                    a.rd, a.offset)

\* read_item from its first line to its first recursive call (or its return)
ReadHead(r, off) ==
    IF ~Avail(r, 1)
    THEN HeadResult("None", NoneItem, NoCborFrame, r, off, no_errors)
    ELSE
    LET byte  == ByteAt(r + 1)
        major == (byte \div 32) % 8
        ai    == byte % 32
        r1    == r + 1
        off1  == off + 1
        Opens(kind) == HeadOpen(CborFrame(kind, major, ai, U64(0)), r1, off1)
    IN  CASE major = MAJOR_UNSIGNED ->
               LET a == read_additional(r1, off1, ai) IN
               IF ~a.ok THEN HeadErr(a.rd, a.offset)
               ELSE HeadValue(CborItem(major, ai, "Unsigned", a.val, <<>>, <<>>),
                              a.rd, a.offset)
          [] major = MAJOR_NEGATIVE ->
               LET a == read_additional(r1, off1, ai) IN
               IF ~a.ok THEN HeadErr(a.rd, a.offset)
               ELSE HeadValue(CborItem(major, ai, "Negative",
                                       NegativeOf(a.val), <<>>, <<>>),
                              a.rd, a.offset)
          [] major = MAJOR_BYTES ->
               IF ai = AI_INDEFINITE THEN Opens("bytes_indef")
               ELSE ReadString(major, ai, r1, off1)
          [] major = MAJOR_TEXT ->
               IF ai = AI_INDEFINITE THEN Opens("text_indef")
               ELSE ReadString(major, ai, r1, off1)
          [] major = MAJOR_ARRAY ->
               IF ai = AI_INDEFINITE THEN Opens("array_indef")
               ELSE ReadCounted(major, ai, r1, off1)
          [] major = MAJOR_MAP ->
               IF ai = AI_INDEFINITE THEN Opens("map_indef")
               ELSE ReadCounted(major, ai, r1, off1)
          [] major = MAJOR_TAG ->
               LET a == read_additional(r1, off1, ai) IN
               IF ~a.ok THEN HeadErr(a.rd, a.offset)
               ELSE HeadOpen(CborFrame("tag", major, ai, a.val),
                             a.rd, a.offset)
          [] OTHER -> ReadSimple(ai, r1, off1)

-----------------------------------------------------------------------------
(* dumpcbor.rs: print_item.  Its output is the sequence of the print_indent
   calls it makes, each with the level it indents to and what follows; a last
   entry "panic" stands for a panic, after which nothing is printed. *)

Line(level, what) == [ level |-> level, what |-> what ]

Panicked(out) == out # <<>> /\ out[Len(out)].what = "panic"

\* a, then b unless a panicked
Then(a, b) == IF Panicked(a) THEN a ELSE a \o b

\* &s[..80] is on a character boundary of the text with UTF-8 bytes b
IsCharBoundary(b, k) == k = Len(b) \/ (k < Len(b) /\ ~IsCont(b[k + 1]))

RECURSIVE print_item(_, _)
RECURSIVE PrintItems(_, _, _)
RECURSIVE PrintPairs(_, _, _)

\* the loop over the items of an array, from the i-th on
PrintItems(items, i, level) ==
    IF i > Len(items) THEN <<>>
    ELSE Then(print_item(items[i], level + 1),
              Then(IF i < Len(items) /\ ~config.compact
                   THEN << Line(level + 1, ",") >> ELSE <<>>,
                   PrintItems(items, i + 1, level)))

\* the loop over the pairs of a map, from the i-th on
PrintPairs(pairs, i, level) ==
    IF i > Len(pairs) THEN <<>>
    ELSE Then(print_item(pairs[i][1], level + 1),
         Then(<< Line(level + 1, "=>") >>,
         Then(print_item(pairs[i][2], level + 1),
         Then(IF i < Len(pairs) /\ ~config.compact
              THEN << Line(level + 1, ",") >> ELSE <<>>,
              PrintPairs(pairs, i + 1, level)))))

print_item(item, level) ==
    IF level > config.max_nest_level
    THEN << Line(level, "<max nesting level exceeded>") >>
    ELSE
    CASE item.t = "Bytes" ->
            << Line(level, "Bytes") >> \o
            (IF config.print_hex \/ Len(item.b) <= 64
             THEN << Line(level, "hex") >> ELSE <<>>)
      [] item.t = "Text" ->
            IF Len(item.b) > TextCap /\ ~config.print_all_data
               /\ ~IsCharBoundary(item.b, TextCap)
            THEN << Line(level, "panic") >>
            ELSE << Line(level, "Text") >>
      [] item.t = "Array" ->
            Then(<< Line(level, "Array") >>,
            Then(PrintItems(item.items, 1, level), << Line(level, "]") >>))
      [] item.t = "Map" ->
            Then(<< Line(level, "Map") >>,
            Then(PrintPairs(item.items, 1, level), << Line(level, "}") >>))
      [] item.t = "Tag" ->
            Then(<< Line(level, "Tag") >>,
            Then(print_item(item.items[1], level + 1), << Line(level, "}") >>))
      [] OTHER -> << Line(level, item.t) >>

-----------------------------------------------------------------------------
(* dumpcbor.rs: dump_cbor and read_item as steps.  cstack holds one frame per
   read_item call that is inside one of its loops (or, for a tag, waits for
   the tagged item); ret holds what the read_item call that just ended
   returned to its caller. *)

CTop == cstack[Len(cstack)]
CPop == SubSeq(cstack, 1, Len(cstack) - 1)

CborUnchanged == UNCHANGED << dumper, src, pad, config, f_pos, no_warnings,
                              stack, args, parsed >>

\* what a step did: op names the step, item the item it read or returned,
\* start the reader position before it, depth the number of waiting calls,
\* errs no_errors before it; for a step that hands a child's result to a
\* waiting call, got is that result and before the waiting call's frame
CLast(op, item, start) ==
    [ op |-> op, item |-> item, start |-> start, depth |-> Len(cstack),
      errs |-> no_errors,
      got |-> IF ret = <<>> THEN NoneItem ELSE ret[1],
      before |-> IF ret = <<>> \/ cstack = <<>> THEN NoCborFrame ELSE CTop ]

\* a read_item call starts: as the loop of dump_cbor or a waiting read_item
\* calls it
CborAtReadItem == dumper = "cbor" /\ status = "running" /\ ret = <<>>

\* read_item: read() returns 0, Ok(None)
ReadItemEof ==
    /\ CborAtReadItem
    /\ LET h == ReadHead(rd, offset) IN
        /\ h.res = "None"
        /\ ret' = << NoneItem >>
        /\ last' = CLast("read_none", NoneItem, rd)
    /\ UNCHANGED << rd, offset, no_errors, cstack, item_count, status, reports >>
    /\ CborUnchanged

\* read_item: a read_exact or read_additional fails (or vec! panics) before
\* any child is read
ReadItemError ==
    /\ CborAtReadItem
    /\ LET h == ReadHead(rd, offset) IN
        /\ h.res \in { "Err", "Panic" }
        /\ status' = IF h.res = "Err" THEN "err" ELSE "panic"
        /\ rd' = h.rd
        /\ offset' = h.offset
        /\ last' = CLast("read_err", NoneItem, rd)
    /\ UNCHANGED << no_errors, cstack, ret, item_count, reports >>
    /\ CborUnchanged

\* read_item: an item without children is read and returned
ReadItemValue ==
    /\ CborAtReadItem
    /\ LET h == ReadHead(rd, offset) IN
        /\ h.res = "Value"
        /\ rd' = h.rd
        /\ offset' = h.offset
        /\ no_errors' = h.no_errors
        /\ ret' = << h.item >>
        /\ last' = CLast("read_value", h.item, rd)
    /\ UNCHANGED << cstack, item_count, status, reports >>
    /\ CborUnchanged

\* read_item: the head of a string of chunks, an array, a map or a tag is
\* read; the call goes on to read its children
ReadItemOpen ==
    /\ CborAtReadItem
    /\ LET h == ReadHead(rd, offset) IN
        /\ h.res = "Open"
        /\ rd' = h.rd
        /\ offset' = h.offset
        /\ cstack' = Append(cstack, h.frame)
        /\ last' = CLast("read_open", NoneItem, rd)
    /\ UNCHANGED << no_errors, ret, item_count, status, reports >>
    /\ CborUnchanged

\* a child's result is back
CborAtReturn == dumper = "cbor" /\ status = "running" /\ ret # <<>>

\* the value a frame's read_item call returns when its loop ends
FrameValue(fr) ==
    CASE fr.kind = "bytes_indef" ->
            CborItem(fr.major_type, fr.additional_info, "Bytes", U64(0),
                     fr.b, <<>>)
      [] fr.kind = "text_indef" ->
            CborItem(fr.major_type, fr.additional_info, "Text", U64(0),
                     fr.b, <<>>)
      [] fr.kind \in { "array_indef", "array_def" } ->
            CborItem(fr.major_type, fr.additional_info, "Array", U64(0),
                     <<>>, fr.items)
      [] fr.kind \in { "map_indef", "map_def" } ->
            CborItem(fr.major_type, fr.additional_info, "Map", U64(0),
                     <<>>, fr.items)
      [] OTHER ->
            CborItem(fr.major_type, fr.additional_info, "Tag", fr.length,
                     <<>>, fr.items)

\* `for _ in 0..length` has run length times
CountReached(done, length) == U64Fits(length) /\ done >= U64Nat(length)

\* the waiting call's loop ends; it returns its value
FrameReturns(fr, errs) ==
    /\ cstack' = CPop
    /\ ret' = << FrameValue(fr) >>
    /\ no_errors' = no_errors + errs
    /\ last' = CLast("return", FrameValue(fr), rd)

\* the waiting call's loop goes on with the frame changed to fr
FrameContinues(fr, errs) ==
    /\ cstack' = Append(CPop, fr)
    /\ ret' = <<>>
    /\ no_errors' = no_errors + errs
    /\ last' = CLast("continue", NoneItem, rd)

\* a loop over the chunks that puts each chunk before the ones already read
ReturnToChunksPrepending ==
    /\ CborAtReturn
    /\ cstack # <<>>
    /\ CTop.kind \in { "bytes_indef", "text_indef" }
    /\ LET chunk == ret[1]
           want  == IF CTop.kind = "bytes_indef" THEN "Bytes" ELSE "Text"
       IN  \/ /\ chunk.t \in { "None", "Break" }
              /\ FrameReturns(CTop, 0)
           \/ /\ chunk.t = want
              /\ FrameContinues([CTop EXCEPT !.b = chunk.b \o @], 0)
           \/ /\ chunk.t \notin { "None", "Break", want }
              /\ FrameContinues(CTop, 1)
    /\ UNCHANGED << rd, offset, item_count, status, reports >>
    /\ CborUnchanged

\* indefinite-length byte or text string: the loop over the chunks
ReturnToChunks ==
    /\ CborAtReturn
    /\ cstack # <<>>
    /\ CTop.kind \in { "bytes_indef", "text_indef" }
    /\ LET chunk == ret[1]
           want  == IF CTop.kind = "bytes_indef" THEN "Bytes" ELSE "Text"
       IN  \/ /\ chunk.t \in { "None", "Break" }
              /\ FrameReturns(CTop, 0)
           \/ /\ chunk.t = want
              /\ FrameContinues([CTop EXCEPT !.b = @ \o chunk.b], 0)
           \/ /\ chunk.t \notin { "None", "Break", want }
              /\ FrameContinues(CTop, 1)
    /\ UNCHANGED << rd, offset, item_count, status, reports >>
    /\ CborUnchanged

\* array: the loop over the items
ReturnToArray ==
    /\ CborAtReturn
    /\ cstack # <<>>
    /\ CTop.kind \in { "array_indef", "array_def" }
    /\ LET item == ret[1]
           more == [CTop EXCEPT !.items = Append(@, item)]
       IN  IF CTop.kind = "array_indef"
           THEN IF item.t \in { "None", "Break" }
                THEN FrameReturns(CTop, 0)
                ELSE FrameContinues(more, 0)
           ELSE IF item.t = "None"
                THEN FrameReturns(CTop, 1)      \* Unexpected EOF in array
                ELSE IF CountReached(Len(more.items), CTop.length)
                     THEN FrameReturns(more, 0)
                     ELSE FrameContinues(more, 0)
    /\ UNCHANGED << rd, offset, item_count, status, reports >>
    /\ CborUnchanged

\* map: the loop over the pairs; key holds the key whose value is being read
ReturnToMap ==
    /\ CborAtReturn
    /\ cstack # <<>>
    /\ CTop.kind \in { "map_indef", "map_def" }
    /\ LET item == ret[1]
           pair == [CTop EXCEPT !.items = Append(@, << CTop.key[1], item >>),
                                !.key = <<>>]
       IN  IF CTop.key = <<>>
           THEN \* the key
                IF CTop.kind = "map_indef"
                THEN IF item.t \in { "None", "Break" }
                     THEN FrameReturns(CTop, 0)
                     ELSE FrameContinues([CTop EXCEPT !.key = << item >>], 0)
                ELSE IF item.t = "None"
                     THEN FrameReturns(CTop, 1)  \* Unexpected EOF in map
                     ELSE FrameContinues([CTop EXCEPT !.key = << item >>], 0)
           ELSE \* the value
                IF item.t = "None"
                THEN FrameReturns([CTop EXCEPT !.key = <<>>], 1)
                                                 \* Missing value in map
                ELSE IF CTop.kind = "map_def"
                        /\ CountReached(Len(pair.items), CTop.length)
                     THEN FrameReturns(pair, 0)
                     ELSE FrameContinues(pair, 0)
    /\ UNCHANGED << rd, offset, item_count, status, reports >>
    /\ CborUnchanged

\* tag: the tagged item
ReturnToTag ==
    /\ CborAtReturn
    /\ cstack # <<>>
    /\ CTop.kind = "tag"
    /\ LET item == ret[1] IN
       IF item.t = "None"
       THEN /\ no_errors' = no_errors + 1       \* Missing tagged value
            /\ status' = "err"
            /\ last' = CLast("tag_err", NoneItem, rd)
            /\ UNCHANGED << cstack, ret >>
       ELSE /\ FrameReturns([CTop EXCEPT !.items = << item >>], 0)
            /\ UNCHANGED status
    /\ UNCHANGED << rd, offset, item_count, reports >>
    /\ CborUnchanged

\* dump_cbor: read_item returns None, "Parsing complete."
DumpCborComplete ==
    /\ CborAtReturn
    /\ cstack = <<>>
    /\ ret[1].t = "None"
    /\ status' = "ok"
    /\ last' = CLast("complete", NoneItem, rd)
    /\ UNCHANGED << rd, offset, no_errors, cstack, ret, item_count, reports >>
    /\ CborUnchanged

\* dump_cbor: read_item returns an item; print_item(&item, 0)
DumpCborPrint ==
    /\ CborAtReturn
    /\ cstack = <<>>
    /\ ret[1].t # "None"
    /\ LET out == print_item(ret[1], 0) IN
        /\ reports' = reports \o [ i \in 1..Len(out) |-> Report(offset, rd) ]
        /\ status' = IF Panicked(out) THEN "panic" ELSE "running"
        /\ last' = CLast("print", ret[1], rd)
        /\ item_count' = IF Panicked(out) THEN item_count ELSE item_count + 1
    /\ ret' = <<>>
    /\ UNCHANGED << rd, offset, no_errors, cstack >>
    /\ CborUnchanged

NextCbor ==
    \/ ReadItemEof
    \/ ReadItemError
    \/ ReadItemValue
    \/ ReadItemOpen
    \/ ReturnToChunks
    \/ ReturnToArray
    \/ ReturnToMap
    \/ ReturnToTag
    \/ DumpCborComplete
    \/ DumpCborPrint

-----------------------------------------------------------------------------
(* The runs checked: every byte source over a set of bytes that reaches each
   branch of the header readers, under the configurations the branches read. *)

\* 00 EOC / length 0, 01 BOOLEAN, 02 INTEGER, 03 BIT STRING, 05 NULL,
\* 11 SET (primitive: no reader of its own) / length 17, 1F long form tag,
\* 30 SEQUENCE (constructed), 80 [0] / indefinite length,
\* 81 [1] / one length octet, 82 [2] / two length octets
Asn1Bytes == { 0, 1, 2, 3, 5, 17, 31, 48, 128, 129, 130 }

\* 00 unsigned 0, 18 unsigned (one byte follows), 41 bytes(1), 5F bytes(*),
\* 61 text(1), 7F text(*), 81 array(1), 9F array(*), A1 map(1), BF map(*),
\* C0 tag 0, FF break
CborBytes == { 0, 24, 65, 95, 97, 127, 129, 159, 161, 191, 192, 255 }

\* longer ASN.1 inputs: lengths in 3 and 4 octets (02 83 .., 02 84 ..), a
\* length byte above 84, and a tag of 5 continuation bytes
Asn1LongInputs ==
    { << 2, 131, 0, 1, 0 >>, << 2, 131, 0, 0, 5 >>, << 2, 132, 0, 0, 1, 0 >>,
      << 2, 132, 0, 0, 0, 3 >>, << 2, 133, 0, 0, 0, 0 >>,
      << 31, 129, 129, 129, 129, 1, 0 >> }

\* INTEGER and ENUMERATED payloads: none, every payload of 1 and 2 bytes over
\* 00, 7F, 80, FF, and payloads of 3, 4, 5, 7, 8 and 9 bytes of either sign
IntegerPayloads ==
    UNION { [ 1..k -> { 0, 127, 128, 255 } ] : k \in 0..2 }
    \cup { << 128, 0, 0 >>, << 1, 2, 3 >>, << 255, 255, 254 >>,
           << 1, 2, 3, 4 >>, << 255, 255, 255, 254 >>,
           << 128, 0, 0, 0, 1 >>, << 127, 1, 2, 3, 4, 5, 6 >>,
           << 128, 0, 0, 0, 0, 0, 0, 0 >>, << 1, 2, 3, 4, 5, 6, 7, 8 >>,
           << 127, 255, 255, 255, 255, 255, 255, 255 >>,
           << 255, 255, 255, 255, 255, 255, 255, 255 >>,
           << 255, 1, 2, 3, 4, 5, 6, 7, 8 >>,
           << 0, 128, 0, 0, 0, 0, 0, 0, 0 >> }

\* a primitive TLV with a short-form length around each payload
Tlv(tag, payload) == << tag, Len(payload) >> \o payload

IntegerInputs ==
    { Tlv(t, p) : t \in { INTEGER, ENUMERATED }, p \in IntegerPayloads }

\* OID payloads: none, 1.2, 1.2.840, 2.5.29.14, 1.2.840.113549.1.1.11, a
\* component of 4 bytes, a component with a leading 80, a last component
\* without its final byte, a first byte above 2.39
OidPayloads ==
    { << >>, << 42 >>, << 42, 134, 72 >>, << 85, 29, 14 >>,
      << 42, 134, 72, 134, 247, 13, 1, 1, 11 >>,
      << 42, 255, 255, 255, 127 >>, << 42, 128, 1, 2 >>, << 43, 6, 129 >>,
      << 255, 127 >> }

OidInputs == { Tlv(OID, p) : p \in OidPayloads }

\* OCTET STRING payloads: none, "AB", FF, "A" and a line feed, 00, 7F
OctetPayloads ==
    { << >>, << 65, 66 >>, << 255 >>, << 65, 10 >>, << 0 >>, << 127 >> }

OctetInputs == { Tlv(OCTETSTRING, p) : p \in OctetPayloads }

\* ASN.1 inputs that carry values
Asn1ValueInputs == IntegerInputs \cup OidInputs \cup OctetInputs

\* definite-length byte string chunks: 40, 41 01, 41 02, 42 01 02
ByteChunks == { << 64 >>, << 65, 1 >>, << 65, 2 >>, << 66, 1, 2 >> }

\* longer CBOR inputs: 5F, two chunks, FF
CborLongInputs ==
    { << 95 >> \o c1 \o c2 \o << 255 >> : c1 \in ByteChunks, c2 \in ByteChunks }

\* text strings of two bytes and an item after them: 62 C3 A9 (valid),
\* 62 C3 28 and 62 FF FE (not UTF-8), each followed by 00
TextInputs ==
    { << 98, 195, 169, 0 >>, << 98, 195, 40, 0 >>, << 98, 255, 254, 0 >> }

\* what follows an initial byte: nothing, or 8 bytes that give small and
\* large arguments (the last with bit 63 set)
HeadTails ==
    { << >>, << 0, 0, 0, 0, 0, 0, 0, 0 >>, << 1, 2, 3, 4, 5, 6, 7, 8 >>,
      << 128, 0, 0, 0, 0, 0, 0, 0 >>,
      << 255, 255, 255, 255, 255, 255, 255, 255 >> }

\* every initial byte (major type 0..7, additional info 0..31) before each
\* of the tails
CborHeadInputs ==
    { << major * 32 + ai >> \o t : major \in 0..7, ai \in 0..31,
                                   t \in HeadTails }

\* half-precision floats F9 hi lo: zeros, subnormals, normal numbers,
\* infinities and NaNs of both signs
F16Inputs ==
    { << 249, hi, lo >> : hi \in { 0, 1, 3, 4, 60, 123, 124, 126, 128, 129,
                                   188, 252, 255 },
                          lo \in { 0, 1, 255 } }

\* text strings of 82 bytes, 78 52 ..: 'a' 80 times and then C3 A9; 'a' 79
\* times, C3 A9 in bytes 80 and 81, and 'a'
LongTextInputs ==
    { << 120, 82 >> \o [ i \in 1..80 |-> 97 ] \o << 195, 169 >>,
      << 120, 82 >> \o [ i \in 1..79 |-> 97 ] \o << 195, 169, 97 >> }

\* the sequences over S of length 0..n
SeqsUpTo(S, n) == UNION { [ 1..k -> S ] : k \in 0..n }

\* Config::default() of dumpasn1.rs and dumpcbor.rs, the fields the decoders
\* read
DefaultConfig ==
    [ max_nest_level |-> DefaultMaxNest, print_all_data |-> FALSE,
      check_charset |-> TRUE, zero_length_allowed |-> FALSE,
      print_hex |-> FALSE, compact |-> FALSE ]

\* padding after src and configuration of the ASN.1 runs: -l 0 and the
\* default, without padding and with 17 bytes of it (more than a line of
\* dump_hex); 385 bytes (more than the display cap) with and without -a;
\* -z without padding
Asn1Setups ==
    { << p, [DefaultConfig EXCEPT !.max_nest_level = l] >> :
         p \in { 0, 17 }, l \in { 0, DefaultMaxNest } }
    \cup { << 385, [DefaultConfig EXCEPT !.print_all_data = a] >> :
              a \in BOOLEAN }
    \cup { << 0, [DefaultConfig EXCEPT !.zero_length_allowed = TRUE] >> }

\* configuration of the CBOR runs: -l 1, so that print_item prints levels 0
\* and 1 and cuts off below
CborSetups == { << 0, [DefaultConfig EXCEPT !.max_nest_level = 1] >> }

\* parse_args_from has not been called
NotParsed == [ res |-> "None" ]

InitCommon ==
    /\ args = <<>>
    /\ parsed = NotParsed
    /\ rd = 0
    /\ f_pos = 0
    /\ offset = 0
    /\ no_errors = 0
    /\ no_warnings = 0
    /\ stack = <<>>
    /\ cstack = <<>>
    /\ ret = <<>>
    /\ item_count = 0
    /\ status = "running"
    /\ reports = <<>>

InitAsn1 ==
    /\ dumper = "asn1"
    /\ src \in SeqsUpTo(Asn1Bytes, MaxLen) \cup Asn1LongInputs
                \cup Asn1ValueInputs
    /\ \E s \in Asn1Setups : pad = s[1] /\ config = s[2]
    /\ InitCommon
    /\ last = Last("init", NewAsn1Item, NoFrame, 0, 0, 0, 0)

InitCbor ==
    /\ dumper = "cbor"
    /\ src \in SeqsUpTo(CborBytes, MaxCborLen) \cup CborLongInputs
                \cup TextInputs \cup CborHeadInputs \cup F16Inputs
                \cup LongTextInputs
    /\ \E s \in CborSetups : pad = s[1] /\ config = s[2]
    /\ InitCommon
    /\ last = CLast("init", NoneItem, 0)

Init == InitAsn1 \/ InitCbor

Next == NextAsn1 \/ NextCbor

Spec == Init /\ [][Next]_vars

-----------------------------------------------------------------------------
(* dumpasn1.rs, dumpcbor.rs: parse_args_from.  An argument is its text, with
   what the code asks of the text: dash, whether it starts with '-', and
   num, the usize it parses to (-1 when str::parse fails). *)

Arg(text, dash, num) == [ text |-> text, dash |-> dash, num |-> num ]

\* Config::default() of dumpasn1.rs, every field
Asn1ConfigDefault ==
    [ print_dots |-> FALSE, do_pure |-> FALSE, dump_header |-> 0,
      extra_oid_info |-> FALSE, do_hex_values |-> FALSE,
      zero_length_allowed |-> FALSE, dump_text |-> FALSE,
      print_all_data |-> FALSE, check_encaps |-> TRUE, check_charset |-> TRUE,
      raw_time_string |-> FALSE, shallow_indent |-> FALSE,
      output_width |-> 80, max_nest_level |-> DefaultMaxNest,
      do_outline_only |-> FALSE, verbose |-> FALSE, print_offset |-> TRUE ]

\* Config::default() of dumpcbor.rs, every field
CborConfigDefault ==
    [ print_hex |-> FALSE, max_bytes_display |-> DisplayCap,
      max_nest_level |-> DefaultMaxNest, decode_nested |-> TRUE,
      show_offsets |-> FALSE, verbose |-> FALSE, compact |-> FALSE,
      print_all_data |-> FALSE, hex_values |-> FALSE, show_types |-> TRUE ]

HelpOptions == { "-h", "--help" }

\* the arms of dumpasn1's match that set one field and go on
Asn1Flags ==
    { "-a", "--print-all", "-c", "--no-check-charset", "-d", "--dump-header",
      "-dd", "-e", "--no-check-encaps", "-i", "--shallow-indent", "-o",
      "--outline", "-p", "--pure", "-r", "--raw-time", "-t", "--text", "-v",
      "--verbose", "-x", "--hex-values", "-z", "--zero-length", "--dots",
      "--no-offset", "--oid-info" }

Asn1Flag(cfg, t) ==
    CASE t \in { "-a", "--print-all" } -> [cfg EXCEPT !.print_all_data = TRUE]
      [] t \in { "-c", "--no-check-charset" } ->
            [cfg EXCEPT !.check_charset = FALSE]
      [] t \in { "-d", "--dump-header" } -> [cfg EXCEPT !.dump_header = 1]
      [] t = "-dd" -> [cfg EXCEPT !.dump_header = 2]
      [] t \in { "-e", "--no-check-encaps" } ->
            [cfg EXCEPT !.check_encaps = FALSE]
      [] t \in { "-i", "--shallow-indent" } ->
            [cfg EXCEPT !.shallow_indent = TRUE]
      [] t \in { "-o", "--outline" } -> [cfg EXCEPT !.do_outline_only = TRUE]
      [] t \in { "-p", "--pure" } -> [cfg EXCEPT !.do_pure = TRUE]
      [] t \in { "-r", "--raw-time" } -> [cfg EXCEPT !.raw_time_string = TRUE]
      [] t \in { "-t", "--text" } -> [cfg EXCEPT !.dump_text = TRUE]
      [] t \in { "-v", "--verbose" } -> [cfg EXCEPT !.verbose = TRUE]
      [] t \in { "-x", "--hex-values" } -> [cfg EXCEPT !.do_hex_values = TRUE]
      [] t \in { "-z", "--zero-length" } ->
            [cfg EXCEPT !.zero_length_allowed = TRUE]
      [] t = "--dots" -> [cfg EXCEPT !.print_dots = TRUE]
      [] t = "--no-offset" -> [cfg EXCEPT !.print_offset = FALSE]
      [] OTHER -> [cfg EXCEPT !.extra_oid_info = TRUE]      \* "--oid-info"

\* the arms of dumpcbor's match that set one field and go on
CborFlags ==
    { "-a", "--print-all", "-c", "--compact", "-o", "--offsets", "-t",
      "--no-types", "-v", "--verbose", "-x", "--hex", "--hex-offsets",
      "--no-decode-nested" }

CborFlag(cfg, t) ==
    CASE t \in { "-a", "--print-all" } -> [cfg EXCEPT !.print_all_data = TRUE]
      [] t \in { "-c", "--compact" } -> [cfg EXCEPT !.compact = TRUE]
      [] t \in { "-o", "--offsets" } -> [cfg EXCEPT !.show_offsets = TRUE]
      [] t \in { "-t", "--no-types" } -> [cfg EXCEPT !.show_types = FALSE]
      [] t \in { "-v", "--verbose" } -> [cfg EXCEPT !.verbose = TRUE]
      [] t \in { "-x", "--hex" } -> [cfg EXCEPT !.print_hex = TRUE]
      [] t = "--hex-offsets" -> [cfg EXCEPT !.hex_values = TRUE]
      [] OTHER -> [cfg EXCEPT !.decode_nested = FALSE] \* "--no-decode-nested"

\* the arms that read a number from the next argument: the letter of the
\* "Missing value after" message, the words of the "Invalid number for"
\* message, the field set
NumberOption(bin, t) ==
    CASE t \in { "-l", "--max-level" } ->
            << "-l", "max level", "max_nest_level" >>
      [] bin = "asn1" /\ t \in { "-w", "--width" } ->
            << "-w", "width", "output_width" >>
      [] bin = "cbor" /\ t \in { "-m", "--max-bytes" } ->
            << "-m", "max bytes", "max_bytes_display" >>
      [] OTHER -> <<>>

\* Result<(Config, Option<String>), String>; "Exit" when the process exits
\* inside the call.  An error message is the pieces format! joins
ParseErr(msg) == [ res |-> "Err", msg |-> msg ]
ParseExit == [ res |-> "Exit" ]
ParseOk(cfg, input_file) ==
    [ res |-> "Ok", config |-> cfg, input_file |-> input_file ]

RECURSIVE ParseLoop(_, _, _, _, _)
\* `while i < args.len()` of parse_args_from; a[i] is args[i - 1] of the code
ParseLoop(bin, a, i, cfg, input_file) ==
    IF i > Len(a) THEN ParseOk(cfg, input_file)
    ELSE
    LET arg == a[i]
        t   == arg.text
        no  == NumberOption(bin, t)
    IN  IF t \in HelpOptions THEN ParseExit
        ELSE IF bin = "asn1" /\ t \in Asn1Flags
        THEN ParseLoop(bin, a, i + 1, Asn1Flag(cfg, t), input_file)
        ELSE IF bin = "cbor" /\ t \in CborFlags
        THEN ParseLoop(bin, a, i + 1, CborFlag(cfg, t), input_file)
        ELSE IF t = "-f"
        THEN IF i + 1 > Len(a)
             THEN ParseErr(<< "Missing filename after -f" >>)
             ELSE ParseLoop(bin, a, i + 2, cfg, << a[i + 1].text >>)
        ELSE IF no # <<>>
        THEN IF i + 1 > Len(a)
             THEN ParseErr(<< "Missing value after ", no[1] >>)
             ELSE IF a[i + 1].num < 0
             THEN ParseErr(<< "Invalid number for ", no[2], ": ",
                              a[i + 1].text >>)
             ELSE ParseLoop(bin, a, i + 2,
                            [cfg EXCEPT ![no[3]] = a[i + 1].num], input_file)
        ELSE IF arg.dash
        THEN ParseErr(<< "Unknown option: ", t >>)
        ELSE IF input_file # <<>>
        THEN ParseErr(<< "Multiple input files specified: ", input_file[1],
                         " and ", t >>)
        ELSE ParseLoop(bin, a, i + 1, cfg, << t >>)

\* a parse_args_from without the check of args.len()
ParseArgsUnchecked(bin, a) ==
    ParseLoop(bin, a, 2,
              IF bin = "asn1" THEN Asn1ConfigDefault ELSE CborConfigDefault,
              <<>>)

\* parse_args_from of the binary bin
parse_args_from(bin, a) ==
    IF Len(a) < 2 THEN ParseErr(<< "No input file specified" >>)
    ELSE ParseLoop(bin, a, 2,
                   IF bin = "asn1" THEN Asn1ConfigDefault
                   ELSE CborConfigDefault,
                   <<>>)

\* the arguments tried: the program name; help; flags of both binaries, of
\* dumpasn1 only (-z) and of dumpcbor only (--compact); -f, -l, -w, -m;
\* options no binary knows; file names; a number; a negative number
ProgramName == Arg("dump", FALSE, -1)
ArgTokens ==
    { Arg("-h", TRUE, -1), Arg("-v", TRUE, -1), Arg("-z", TRUE, -1),
      Arg("--compact", TRUE, -1), Arg("-f", TRUE, -1), Arg("-l", TRUE, -1),
      Arg("-w", TRUE, -1), Arg("-m", TRUE, -1), Arg("--unknown", TRUE, -1),
      Arg("-5", TRUE, -1), Arg("first.der", FALSE, -1),
      Arg("second.der", FALSE, -1), Arg("7", FALSE, 7) }

InitArgs ==
    /\ dumper \in { "asn1", "cbor" }
    /\ args \in { << ProgramName >> \o t : t \in SeqsUpTo(ArgTokens, MaxArgs) }
    /\ parsed = NotParsed
    /\ src = <<>>
    /\ pad = 0
    /\ config = DefaultConfig
    /\ rd = 0
    /\ f_pos = 0
    /\ offset = 0
    /\ no_errors = 0
    /\ no_warnings = 0
    /\ stack = <<>>
    /\ cstack = <<>>
    /\ ret = <<>>
    /\ item_count = 0
    /\ status = "running"
    /\ reports = <<>>
    /\ last = Last("init", NewAsn1Item, NoFrame, 0, 0, 0, 0)

\* main calls parse_args, which calls parse_args_from on the arguments
ParseArgs ==
    /\ args # <<>>
    /\ parsed = NotParsed
    /\ parsed' = parse_args_from(dumper, args)
    /\ UNCHANGED << dumper, src, pad, config, rd, f_pos, offset, no_errors,
                    no_warnings, stack, cstack, ret, item_count, status,
                    reports, last, args >>

ArgsSpec == InitArgs /\ [][ParseArgs]_vars

-----------------------------------------------------------------------------
(* Properties *)

\* the steps of the ASN.1 dumper that called get_item, by its result
Asn1NoneOps == { "complete", "eof_close" }
Asn1SomeOps == { "eoc_close", "skip", "cons", "prim" }

\* C1: at every print_indent the position counter (f_pos, offset) equals the
\* number of bytes consumed from the source so far, and it never decreases
\* from one report to the next.
C1_ReportedPositionExact ==
    /\ \A i \in 1..Len(reports) : reports[i].pos = reports[i].consumed
    /\ \A i \in 1..(Len(reports) - 1) : reports[i].pos <= reports[i + 1].pos

\* C2: when print_asn1_object returns Ok for a primitive item of definite
\* length, exactly item.length payload bytes were consumed and f_pos advanced
\* by item.length.
C2_PrimitiveConsumesLength ==
    (dumper = "asn1" /\ last.op = "prim" /\ ~last.item.indefinite
       /\ status = "running")
    => /\ rd - last.body = last.item.length
       /\ f_pos - last.fbody = last.item.length

\* C3: when print_constructed returns Ok for an item of definite length,
\* f_pos equals the end position computed on entry.
C3_ConstructedEndsAtEnd ==
    (dumper = "asn1" /\ last.op \in { "end_close", "eof_close" }
       /\ last.frame.kind = "def")
    => f_pos = last.frame.end_pos

\* the loops of read_item that an indefinite length opens
CborIndefKinds == { "bytes_indef", "text_indef", "array_indef", "map_indef" }

\* C4: an indefinite-length aggregate that meets the end of the input before
\* its sentinel ends in an error; it is not returned as if it had been closed.
C4_IndefiniteEofIsError ==
    /\ (dumper = "asn1" /\ last.op = "eof_close" /\ last.frame.kind = "indef")
       => status = "err"
    /\ (dumper = "cbor" /\ last.op \in { "return", "continue" }
          /\ last.before.kind \in CborIndefKinds /\ last.got.t = "None")
       => status = "err"


RECURSIVE TagEnd(_, _)
\* X.690 8.1.2.4, with the dumper's cap of 4 continuation bytes: the index of
\* the last byte of a long form tag whose k-th continuation byte is at index
\* i, or -1 when the input ends before it
TagEnd(i, k) ==
    IF i > InputLen THEN -1
    ELSE IF ByteAt(i) < 128 \/ k >= 4 THEN i
    ELSE TagEnd(i + 1, k + 1)

\* the input holds at least one byte of the TLV header that starts after
\* `start` bytes, and ends inside it (mid tag, or before or inside the length)
Asn1HeaderCut(start) ==
    /\ start < InputLen
    /\ LET e == IF ByteAt(start + 1) % 32 = 31 THEN TagEnd(start + 2, 1)
                ELSE start + 1
       IN  \/ e = -1
           \/ e + 1 > InputLen
           \/ /\ ByteAt(e + 1) \in 129..132
              /\ e + 1 + (ByteAt(e + 1) - 128) > InputLen

\* the input holds the initial byte of the CBOR item that starts after
\* `start` bytes, and ends inside the 1, 2, 4 or 8 bytes that additional
\* info 24..27 announces
CborHeaderCut(start) ==
    /\ start < InputLen
    /\ LET ai == ByteAt(start + 1) % 32
       IN  /\ ai \in 24..27
           /\ start + 1 + 2 ^ (ai - 24) > InputLen

\* C5: get_item and read_item return Ok(None) only when no byte is left where
\* the unit starts; when the input ends inside the unit's header the call
\* returns an error, and a header returned as Some was read from the input in
\* full.
C5_NoneOnlyAtCleanEof ==
    /\ dumper = "asn1" =>
        /\ last.op \in Asn1NoneOps => last.start = InputLen
        /\ (last.op \in Asn1NoneOps \cup Asn1SomeOps \cup { "hdr_err" }
              /\ Asn1HeaderCut(last.start))
           => (last.op = "hdr_err" /\ status = "err")
        /\ last.op \in Asn1SomeOps =>
              /\ last.body <= InputLen
              /\ last.item.header = Bytes(last.start, last.body - last.start)
    /\ dumper = "cbor" =>
        /\ last.op = "read_none" => last.start = InputLen
        /\ (last.op \in { "read_none", "read_err", "read_value", "read_open" }
              /\ CborHeaderCut(last.start))
           => (last.op = "read_err" /\ status = "err")

\* C5 happens: the input ended after the first byte of a TLV header, and
\* get_item returned an error
C5_Witness ==
    /\ dumper = "asn1"
    /\ last.op = "hdr_err"
    /\ last.start + 1 = InputLen
    /\ status = "err"

\* one step of a dumper makes progress: an iteration of a sibling loop
\* consumes at least one byte or leaves the loop; a read_item call consumes a
\* byte, fails or returns None, and a None handed to a waiting call ends it
Progress ==
    /\ dumper = "asn1" =>
          \/ rd' > rd
          \/ Len(stack') < Len(stack)
          \/ status' # "running"
    /\ (dumper = "cbor" /\ ret = <<>>) =>
          \/ rd' > rd
          \/ status' # "running"
          \/ (ret' # <<>> /\ ret'[1].t = "None")
    /\ (dumper = "cbor" /\ ret # <<>>) =>
          \/ status' # "running"
          \/ Len(cstack') < Len(cstack)
          \/ (ret[1].t # "None" /\ ret' = <<>>)

\* the inputs of the runs checked for termination: headers of zero-length
\* children (00 00, 01 00, 05 00, 30 00), definite and indefinite SEQUENCEs
\* and a long form length; integers, indefinite strings, arrays, maps, a tag
\* and the break
LiveAsn1Bytes == { 0, 1, 5, 48, 128, 129 }
LiveCborBytes == { 0, 24, 95, 129, 159, 191, 192, 255 }

InitLiveAsn1 ==
    /\ dumper = "asn1"
    /\ src \in SeqsUpTo(LiveAsn1Bytes, MaxLen)
    /\ pad = 0
    /\ \E l \in { 0, DefaultMaxNest } :
          config = [DefaultConfig EXCEPT !.max_nest_level = l]
    /\ InitCommon
    /\ last = Last("init", NewAsn1Item, NoFrame, 0, 0, 0, 0)

InitLiveCbor ==
    /\ dumper = "cbor"
    /\ src \in SeqsUpTo(LiveCborBytes, MaxCborLen)
    /\ \E s \in CborSetups : pad = s[1] /\ config = s[2]
    /\ InitCommon
    /\ last = CLast("init", NoneItem, 0)

\* the dumpers run to the end: the scheduler is the program counter
FairSpec == (InitLiveAsn1 \/ InitLiveCbor) /\ [][Next]_vars /\ WF_vars(Next)

\* C6: dump_asn1 and dump_cbor terminate on every input, every step making
\* progress (a byte consumed, or a loop left).
C6_Terminates == [][Progress]_vars /\ <>(status # "running")

\* C6 happens: a zero-length child that is no end-of-contents unit is skipped
\* by the nesting cutoff inside a loop of print_constructed, its header
\* consumed
C6_Witness ==
    /\ dumper = "asn1"
    /\ last.op = "skip"
    /\ stack # <<>>
    /\ last.item.length = 0
    /\ ~IsEndOfContents(last.item)
    /\ rd > last.start

\* C7: print_asn1_object called above max_nest_level returns Ok and, for a
\* definite length, has consumed item.length bytes and advanced f_pos by it.
C7_SkippedContentConsumed ==
    (dumper = "asn1" /\ last.op = "skip" /\ ~last.item.indefinite
       /\ Avail(last.body, last.item.length))
    => /\ status = "running"
       /\ rd - last.body = last.item.length
       /\ f_pos - last.fbody = last.item.length

\* the waiting read_item calls that read the children of an array, a map or
\* a tag: the nesting depth of the item being read
CborDepth ==
    Cardinality({ i \in 1..Len(cstack) :
                    cstack[i].kind \in { "array_indef", "array_def",
                                         "map_indef", "map_def", "tag" } })

\* C8: no CBOR item is materialized at a nesting depth (root = 0) above
\* max_nest_level: read_item builds no child of an array, map or tag beyond
\* the limit.
C8_NoItemBelowCutoff ==
    (dumper = "cbor" /\ ret # <<>> /\ ret[1].t # "None")
    => CborDepth <= config.max_nest_level

\* C9: a break that follows a key without value in an indefinite-length map
\* is reported as an error and closes the map.
C9_DanglingKeyClosesMap ==
    (dumper = "cbor" /\ last.op \in { "return", "continue" }
       /\ last.before.kind = "map_indef" /\ last.before.key # <<>>
       /\ last.got.t = "Break")
    => \/ status = "err"
       \/ (last.op = "return" /\ no_errors > last.errs)

\* C10: a chunk of another major type inside an indefinite-length byte or text
\* string makes read_item fail for that string.
C10_ChunkMismatchIsError ==
    (dumper = "cbor" /\ last.op \in { "return", "continue" }
       /\ last.before.kind \in { "bytes_indef", "text_indef" }
       /\ last.got.t \notin { "None", "Break",
                              IF last.before.kind = "bytes_indef"
                              THEN "Bytes" ELSE "Text" })
    => status = "err"

RECURSIVE ChunkParse(_, _)
\* RFC 8949 3.2.3: the input from its i-th byte on as definite-length byte
\* string chunks (length in the initial byte, or in one byte after 58) up to
\* a break: ok when it is that, payload the chunks' bytes in order, end the
\* number of bytes up to and including the break
ChunkParse(i, acc) ==
    IF i > InputLen THEN [ ok |-> FALSE, payload |-> acc, end |-> i ]
    ELSE
    LET b == ByteAt(i) IN
    IF b = 255 THEN [ ok |-> TRUE, payload |-> acc, end |-> i ]
    ELSE IF b \in 64..87
    THEN IF i + (b - 64) > InputLen
         THEN [ ok |-> FALSE, payload |-> acc, end |-> i ]
         ELSE ChunkParse(i + 1 + (b - 64), acc \o Bytes(i, b - 64))
    ELSE IF b = 88 /\ i + 1 <= InputLen /\ i + 1 + ByteAt(i + 1) <= InputLen
    THEN ChunkParse(i + 2 + ByteAt(i + 1),
                    acc \o Bytes(i + 1, ByteAt(i + 1)))
    ELSE [ ok |-> FALSE, payload |-> acc, end |-> i ]

\* the input starts with an indefinite-length byte string made of
\* definite-length byte string chunks and a break
StartsWithChunkedBytes ==
    /\ InputLen >= 1
    /\ ByteAt(1) = 95
    /\ ChunkParse(2, <<>>).ok

\* C11: read_item returns for an indefinite-length byte string of
\* definite-length chunks and a break one Bytes value, the chunks' payloads
\* in stream order, with the break consumed and offset advanced by the bytes
\* of the opening byte, the chunks and the break.
C11_ChunksConcatenated ==
    (dumper = "cbor" /\ StartsWithChunkedBytes /\ item_count = 0
       /\ last.op = "return" /\ cstack = <<>>)
    => /\ ret[1].t = "Bytes"
       /\ ret[1].b = ChunkParse(2, <<>>).payload
       /\ rd = ChunkParse(2, <<>>).end
       /\ offset = ChunkParse(2, <<>>).end
       /\ no_errors = 0

\* C11 happens: 5F 41 01 41 02 FF has been read and returned as 01 02
C11_Witness ==
    /\ dumper = "cbor"
    /\ src = << 95, 65, 1, 65, 2, 255 >>
    /\ last.op = "return"
    /\ cstack = <<>>
    /\ ret = << CborItem(MAJOR_BYTES, AI_INDEFINITE, "Bytes", U64(0),
                         << 1, 2 >>, <<>>) >>
    /\ rd = 6

\* the item that starts after `start` bytes is a definite-length text string,
\* its length n in the initial byte, whose n bytes are in the input and are
\* not UTF-8
InvalidTextAt(start) ==
    /\ start < InputLen
    /\ ByteAt(start + 1) \in 96..119
    /\ Avail(start + 1, ByteAt(start + 1) - 96)
    /\ ~Utf8Valid(Bytes(start + 1, ByteAt(start + 1) - 96))

\* C12: for a definite-length text string that is not UTF-8 read_item adds
\* one to no_errors, returns Ok with a placeholder text, and has consumed the
\* declared bytes, so that the next item is read from the byte after them.
C12_InvalidTextSubstituted ==
    (dumper = "cbor"
       /\ last.op \in { "read_none", "read_err", "read_value", "read_open" }
       /\ InvalidTextAt(last.start))
    => /\ last.op = "read_value"
       /\ status = "running"
       /\ no_errors = last.errs + 1
       /\ last.item.t = "Text"
       /\ last.item.subst
       /\ last.item.b = PlaceholderText
       /\ rd = last.start + 1 + (ByteAt(last.start + 1) - 96)
       /\ offset = rd
       /\ ret = << last.item >>

\* C12 happens: 62 C3 28 was read as a placeholder, and the 00 after it is
\* being returned as the next item
C12_Witness ==
    /\ dumper = "cbor"
    /\ src = << 98, 195, 40, 0 >>
    /\ last.op = "read_value"
    /\ last.item.t = "Unsigned"
    /\ last.start = 3
    /\ item_count = 1
    /\ no_errors = 1

\* the tags print_asn1_object has an arm for
ReaderTags ==
    { BOOLEAN_TAG, INTEGER, ENUMERATED, BITSTRING, OCTETSTRING, NULLTAG, OID }
        \cup StringTags

\* C13: a primitive item whose tag has no reader of its own is consumed as
\* item.length opaque bytes, the decoding goes on, and no_warnings counts it.
C13_UnknownTagWarned ==
    (dumper = "asn1" /\ last.op = "prim" /\ last.item.tag \notin ReaderTags
       /\ Avail(last.body, last.item.length))
    => /\ status = "running"
       /\ rd = last.body + last.item.length
       /\ no_warnings >= 1

\* C14: a BOOLEAN of declared length 0 is a length error when
\* zero_length_allowed is false; when it is true the item decodes without
\* consuming a byte of what follows.
C14_EmptyBooleanHandled ==
    (dumper = "asn1" /\ last.op = "prim" /\ last.item.id = 0
       /\ last.item.tag = BOOLEAN_TAG /\ last.item.length = 0
       /\ ~last.item.indefinite)
    => IF config.zero_length_allowed
       THEN status = "running" /\ rd = last.body /\ f_pos = last.fbody
       ELSE (status = "err" \/ no_errors >= 1) /\ rd = last.body

\* the options of a binary that take the next argument as their value
ValueOptions(bin) ==
    { "-f", "-l", "--max-level" }
        \cup (IF bin = "asn1" THEN { "-w", "--width" }
              ELSE { "-m", "--max-bytes" })

\* the options a binary's help lists
KnownOptions(bin) ==
    HelpOptions \cup ValueOptions(bin)
        \cup (IF bin = "asn1" THEN Asn1Flags ELSE CborFlags)

RECURSIVE OptionPositions(_, _, _)
\* reading a from its i-th argument on, left to right, the positions that are
\* not the value of the option before them
OptionPositions(bin, a, i) ==
    IF i > Len(a) THEN {}
    ELSE { i } \cup OptionPositions(bin, a,
                        IF a[i].text \in ValueOptions(bin) THEN i + 2
                        ELSE i + 1)

ArgPositions == OptionPositions(dumper, args, 2)

\* args[i] is a file name given as a positional argument
IsPositional(i) == i \in ArgPositions /\ ~args[i].dash

\* args[i] begins with '-' and is no option of the binary
IsUnknownOption(i) ==
    args[i].dash /\ args[i].text \notin KnownOptions(dumper)

\* the input files given before position i, in order: positional ones and
\* the values of -f
FilesBefore(i) ==
    LET at == { k \in ArgPositions :
                  /\ k < i
                  /\ \/ ~args[k].dash
                     \/ args[k].text = "-f" /\ k + 1 <= Len(args) }
        F[n \in 1..(Len(args) + 1)] ==
            IF n = 1 THEN <<>>
            ELSE IF (n - 1) \notin at THEN F[n - 1]
            ELSE Append(F[n - 1],
                        IF args[n - 1].dash THEN args[n].text
                        ELSE args[n - 1].text)
    IN  F[i]

\* reading args[i] ends the parse
EndsParse(i) ==
    /\ i \in ArgPositions
    /\ \/ args[i].text \in HelpOptions
       \/ IsUnknownOption(i)
       \/ args[i].text \in ValueOptions(dumper) /\ i + 1 > Len(args)
       \/ /\ args[i].text \in ValueOptions(dumper) \ { "-f" }
          /\ i + 1 <= Len(args)
          /\ args[i + 1].num < 0
       \/ ~args[i].dash /\ FilesBefore(i) # <<>>

\* args[i] is the first argument that ends the parse
FirstEnd(i) == EndsParse(i) /\ \A k \in 2..(i - 1) : ~EndsParse(k)

\* parse_args_from returned Err with a message that holds the piece p
ErrWith(p) ==
    /\ parsed.res = "Err"
    /\ \E k \in 1..Len(parsed.msg) : parsed.msg[k] = p

\* C15 as stated: Err with "No input file specified" for the program name
\* alone, Err with "Unknown option" whenever an argument begins with '-' and
\* is no known option, Err with "Multiple input files specified" and both
\* names whenever a second positional file name follows a first.
C15_ArgErrorsAsStated ==
    parsed # NotParsed =>
        /\ Len(args) = 1 => ErrWith("No input file specified")
        /\ \A i \in 2..Len(args) :
              IsUnknownOption(i) => ErrWith("Unknown option: ")
        /\ \A i \in 2..Len(args) : \A j \in (i + 1)..Len(args) :
              (IsPositional(i) /\ IsPositional(j))
              => /\ ErrWith("Multiple input files specified: ")
                 /\ ErrWith(args[i].text)
                 /\ ErrWith(args[j].text)

\* C15: parse_args_from returns Err with "No input file specified" for the
\* program name alone; when the first argument that ends the parse begins
\* with '-' and is no known option, Err with "Unknown option" and the
\* argument; when it is a file name read with an input file already set,
\* Err with "Multiple input files specified", the file set last and the
\* argument.
C15_ArgErrors ==
    parsed # NotParsed =>
        /\ Len(args) = 1 => parsed = ParseErr(<< "No input file specified" >>)
        /\ \A i \in 2..Len(args) :
              (FirstEnd(i) /\ IsUnknownOption(i))
              => parsed = ParseErr(<< "Unknown option: ", args[i].text >>)
        /\ \A i \in 2..Len(args) :
              (FirstEnd(i) /\ ~args[i].dash)
              => LET files == FilesBefore(i) IN
                 parsed = ParseErr(<< "Multiple input files specified: ",
                                      files[Len(files)], " and ",
                                      args[i].text >>)
        /\ (\E i \in 2..Len(args) : EndsParse(i)) => parsed.res # "Ok"

\* C15 happens: dumpasn1 first.der second.der was refused
C15_Witness ==
    /\ dumper = "asn1"
    /\ Len(args) = 3
    /\ args[2].text = "first.der"
    /\ args[3].text = "second.der"
    /\ parsed = ParseErr(<< "Multiple input files specified: ", "first.der",
                            " and ", "second.der" >>)

\* C16: the unit that ends an indefinite-length constructed item is a
\* zero-length unit of universal class with tag number 0; it is consumed and
\* counted in f_pos, and no unit of another class or tag number ends the item.
C16_OnlyEndOfContentsCloses ==
    (dumper = "asn1" /\ last.op = "eoc_close")
    => /\ last.item.length = 0
       /\ last.item.header[1] \div 64 = 0
       /\ last.item.header[1] % 32 = 0
       /\ rd = last.start + Len(last.item.header)
       /\ f_pos = last.fbody

\* C17: inside an indefinite-length byte or text string a chunk that is of
\* indefinite length itself is rejected; read_item does not merge it into
\* the string.
C17_NestedIndefiniteChunkRejected ==
    (dumper = "cbor" /\ last.op \in { "return", "continue" }
       /\ last.before.kind \in { "bytes_indef", "text_indef" }
       /\ last.got.t \in { "Bytes", "Text" }
       /\ last.got.additional_info = AI_INDEFINITE)
    => status = "err"

\* C18: read_item returns for a definite-length array of n items (map of n
\* pairs) a value with n items (pairs) or an error; never Ok with fewer.
C18_DeclaredCountRead ==
    (dumper = "cbor" /\ last.op = "return"
       /\ last.before.kind \in { "array_def", "map_def" })
    => \/ status = "err"
       \/ /\ U64Fits(last.before.length)
          /\ Len(ret[1].items) = U64Nat(last.before.length)

\* the index of the last tag byte of the TLV header that starts after
\* `start` bytes, as get_item reads it
TagLast(start) ==
    IF ByteAt(start + 1) % 32 = 31 THEN TagEnd(start + 2, 1) ELSE start + 1

RECURSIVE OctetsValue(_, _)
\* X.690 8.1.3.5: the value of the k length octets after the first p bytes,
\* most significant first
OctetsValue(p, k) ==
    IF k = 0 THEN 0
    ELSE ByteAt(p + 1) * 256 ^ (k - 1) + OctetsValue(p + 1, k - 1)

\* C19: get_item gives for a length byte below 80 that definite length, for
\* 80 an indefinite length, for 81..84 the big-endian value of the next 1..4
\* bytes, for 85..FF an error; non_canonical exactly for a long form below
\* 128; header_size is the number of header bytes read.
C19_LengthField ==
    (dumper = "asn1" /\ last.op \in Asn1SomeOps \cup { "hdr_err" }
       /\ last.start < InputLen /\ ~Asn1HeaderCut(last.start))
    => LET e  == TagLast(last.start)
           lb == ByteAt(e + 1)
           k  == lb - 128
           it == last.item
       IN  IF lb > 132 THEN last.op = "hdr_err" /\ status = "err"
           ELSE /\ last.op \in Asn1SomeOps
                /\ it.indefinite = (lb = 128)
                /\ it.length = IF lb < 128 THEN lb
                               ELSE IF lb = 128 THEN 0
                               ELSE OctetsValue(e + 1, k)
                /\ it.non_canonical = (lb > 128 /\ OctetsValue(e + 1, k) < 128)
                /\ it.header_size = (IF lb <= 128 THEN e + 1 ELSE e + 1 + k)
                                       - last.start
                /\ it.header_size = Len(it.header)
                /\ last.body = last.start + it.header_size

\* C19 happens: 02 84 00 00 01 00 was read as a definite length of 256
C19_Witness ==
    /\ dumper = "asn1"
    /\ src = << 2, 132, 0, 0, 1, 0 >>
    /\ last.op = "prim"
    /\ last.item.length = 256
    /\ last.item.header_size = 6
    /\ ~last.item.non_canonical

RECURSIVE RunEnd(_)
\* X.690 8.1.2.4: the index of the byte that ends the run of tag number
\* bytes starting at byte i (the first with bit 8 clear), -1 when the input
\* ends before it
RunEnd(i) ==
    IF i > InputLen THEN -1
    ELSE IF ByteAt(i) < 128 THEN i
    ELSE RunEnd(i + 1)

RECURSIVE TagNumber(_, _)
\* X.690 8.1.2.4: the tag number held by bytes i..e, 7 bits each, most
\* significant first
TagNumber(i, e) ==
    IF i > e THEN 0
    ELSE (ByteAt(i) % 128) * 128 ^ (e - i) + TagNumber(i + 1, e)

\* C20: for an identifier in high-tag-number form get_item returns as the
\* item's tag the full number held by up to 4 continuation bytes, and fails
\* when the run of continuation bytes is longer.
C20_LongTagNumber ==
    (dumper = "asn1" /\ last.op \in Asn1SomeOps \cup { "hdr_err" }
       /\ last.start < InputLen /\ ByteAt(last.start + 1) % 32 = 31
       /\ RunEnd(last.start + 2) # -1)
    => LET b == last.start + 2
           e == RunEnd(b)
       IN  IF e - b + 1 > 4 THEN last.op = "hdr_err" /\ status = "err"
           ELSE ~Asn1HeaderCut(last.start) /\ last.op \in Asn1SomeOps
                => last.item.tag = TagNumber(b, e)

\* RFC 8949 3: the number of argument bytes that follow an initial byte with
\* additional information ai
ArgumentBytes(ai) ==
    IF ai = 24 THEN 1 ELSE IF ai = 25 THEN 2 ELSE IF ai = 26 THEN 4
    ELSE IF ai = 27 THEN 8 ELSE 0

\* RFC 8949 3: the argument of the head whose initial byte is byte p, as 8
\* bytes, most significant first
ArgumentAt(p) ==
    LET ai == ByteAt(p) % 32
        k  == ArgumentBytes(ai)
    IN  [ i \in 1..8 |-> IF k = 0 THEN (IF i = 8 THEN ai ELSE 0)
                         ELSE IF i <= 8 - k THEN 0
                         ELSE ByteAt(p + i - (8 - k)) ]

\* C21: read_additional returns ai for 0..23 without reading, the big-endian
\* value of the next 1, 2, 4, 8 bytes for 24..27 with offset advanced by as
\* many, and an error for 28..30, so that read_item fails for every major
\* type on 28..30.  Seen on the calls of read_item that hand the value on
\* unchanged: unsigned integers, tags, array and map counts.
C21_AdditionalInfo ==
    [][ (CborAtReadItem /\ Avail(rd, 1))
        => LET byte  == ByteAt(rd + 1)
               major == byte \div 32
               ai    == byte % 32
               k     == ArgumentBytes(ai)
           IN  /\ ai \in 28..30 => status' = "err" /\ ret' = << >>
               /\ (ai <= 27 /\ Avail(rd + 1, k)
                     /\ major \in { MAJOR_UNSIGNED, MAJOR_TAG })
                  => /\ status' = "running"
                     /\ rd' = rd + 1 + k
                     /\ offset' = offset + 1 + k
                     /\ IF major = MAJOR_UNSIGNED
                        THEN ret' = << CborItem(major, ai, "Unsigned",
                                          ArgumentAt(rd + 1), <<>>, <<>>) >>
                        ELSE cstack'[Len(cstack')].length = ArgumentAt(rd + 1)
               /\ (ai <= 27 /\ Avail(rd + 1, k)
                     /\ major \in { MAJOR_ARRAY, MAJOR_MAP }
                     /\ ArgumentAt(rd + 1) # U64(0))
                  => /\ rd' = rd + 1 + k
                     /\ offset' = offset + 1 + k
                     /\ cstack'[Len(cstack')].length = ArgumentAt(rd + 1)
      ]_vars

\* C21 happens: 1B 01 02 03 04 05 06 07 08 was read as one unsigned integer
C21_Witness ==
    /\ dumper = "cbor"
    /\ src = << 27, 1, 2, 3, 4, 5, 6, 7, 8 >>
    /\ last.op = "read_value"
    /\ last.item.t = "Unsigned"
    /\ last.item.n = << 1, 2, 3, 4, 5, 6, 7, 8 >>
    /\ offset = 9

\* C22: read_item rejects an initial byte with additional information 31
\* and major type 0 (unsigned), 1 (negative) or 6 (tag) with an error, and
\* never decodes it to a value.
C22_IndefiniteOnlyWhereLegal ==
    (dumper = "cbor" /\ last.op \in { "read_value", "read_open", "read_err" }
       /\ ByteAt(last.start + 1) % 32 = AI_INDEFINITE
       /\ ByteAt(last.start + 1) \div 32
             \in { MAJOR_UNSIGNED, MAJOR_NEGATIVE, MAJOR_TAG })
    => last.op = "read_err" /\ status = "err"

\* C23: for a negative-integer head with argument n read_item yields
\* -1 - n, a strictly negative value, also for n >= 2^63.  For an i64 x
\* that is negative, x = -1 - n exactly when each byte of x and the byte of n
\* at its place add up to FF.
C23_NegativeIsNegative ==
    (dumper = "cbor" /\ last.op \in { "read_value", "read_err" }
       /\ Avail(last.start, 1)
       /\ ByteAt(last.start + 1) \div 32 = MAJOR_NEGATIVE
       /\ ByteAt(last.start + 1) % 32 <= 27
       /\ Avail(last.start + 1, ArgumentBytes(ByteAt(last.start + 1) % 32)))
    => /\ last.op = "read_value"
       /\ last.item.t = "Negative"
       /\ I64IsNegative(last.item.n)
       /\ \A i \in 1..8 :
             last.item.n[i] + ArgumentAt(last.start + 1)[i] = 255

\* the payload of the TLV that the last step was about
LastPayload == Bytes(last.body, last.item.length)

\* the last step was print_asn1_object on a primitive TLV of universal class
\* with one of the given tags whose whole payload is in the input
LastPrimitive(tags) ==
    /\ dumper = "asn1"
    /\ last.op = "prim"
    /\ ClassOf(last.item) = UNIVERSAL
    /\ last.item.tag \in tags
    /\ Avail(last.body, last.item.length)

\* X.690 8.3: the 8 bytes of the two's complement pattern of the integer
\* that a payload of 1..8 bytes holds
SignExtended(payload) ==
    [ i \in 1..8 |-> IF i > 8 - Len(payload)
                     THEN payload[i - (8 - Len(payload))]
                     ELSE IF payload[1] >= 128 THEN 255 ELSE 0 ]

\* X.690 8.3: the integer that a payload of 1..3 bytes holds
SmallInteger(payload) ==
    BigEndian(payload) - (IF payload[1] >= 128 THEN 256 ^ Len(payload) ELSE 0)

\* the integer that an i64 within -2^24 .. 2^24 - 1 holds
SmallI64(v) ==
    BigEndian(SubSeq(v, 6, 8)) - (IF v[1] >= 128 THEN 256 ^ 3 ELSE 0)

\* C24: for an INTEGER or ENUMERATED payload of 1..8 bytes print_integer
\* yields its big-endian two's complement value, negative exactly when the
\* first byte has its high bit set; a longer payload is kept as raw bytes;
\* exactly length bytes are consumed either way.
C24_IntegerValue ==
    (LastPrimitive({ INTEGER, ENUMERATED }) /\ last.item.length >= 1)
    => LET length == last.item.length
           out == last.out
       IN  /\ status = "running"
           /\ rd = last.body + length
           /\ f_pos = last.fbody + length
           /\ IF length <= 8
              THEN /\ out.kind = "int"
                   /\ out.value = SignExtended(LastPayload)
                   /\ I64IsNegative(out.value) = (LastPayload[1] >= 128)
                   /\ length <= 3
                      => SmallI64(out.value) = SmallInteger(LastPayload)
              ELSE /\ out.kind = "hex"
                   /\ out.bytes = Bytes(last.body, Min(length, 
                                     IF config.print_all_data THEN length
                                     ELSE DisplayCap))

\* C24 happens: 02 02 FF 7F was printed as -129
C24_Witness ==
    /\ LastPrimitive({ INTEGER })
    /\ src = << 2, 2, 255, 127 >>
    /\ last.out.kind = "int"
    /\ SmallI64(last.out.value) = -129
    /\ rd = 4

\* X.690 8.19: the places in a payload where a subidentifier after the
\* first byte ends: a byte with bit 8 clear, or the last byte
GroupEnds(payload) ==
    { j \in 2..Len(payload) : payload[j] < 128 \/ j = Len(payload) }

\* the place where the subidentifier that ends at e starts
GroupStart(payload, e) ==
    LET before == { j \in GroupEnds(payload) : j < e }
    IN  IF before = {} THEN 2
        ELSE 1 + CHOOSE j \in before : \A k \in before : k <= j

RECURSIVE GroupValue(_, _, _)
\* X.690 8.19.2: the number held by bytes s..e, 7 bits each
GroupValue(payload, s, e) ==
    IF s > e THEN 0
    ELSE (payload[s] % 128) * 128 ^ (e - s) + GroupValue(payload, s + 1, e)

\* C25: print_oid emits (first / 40, first % 40) and then one component per
\* base-128 group of the remaining bytes, in order; an empty payload gives
\* the empty-OID marker and Ok; exactly length bytes are consumed.
C25_OidComponents ==
    LastPrimitive({ OID })
    => LET payload == LastPayload
           length  == last.item.length
           out     == last.out
       IN  /\ status = "running"
           /\ rd = last.body + length
           /\ f_pos = last.fbody + length
           /\ IF length = 0 THEN out.kind = "empty_oid"
              ELSE /\ out.kind = "oid"
                   /\ Len(out.value) = 2 + Cardinality(GroupEnds(payload))
                   /\ out.value[1] = payload[1] \div 40
                   /\ out.value[2] = payload[1] % 40
                   /\ \A e \in GroupEnds(payload) :
                        out.value[2 + Cardinality({ j \in GroupEnds(payload) :
                                                      j <= e })]
                          = GroupValue(payload, GroupStart(payload, e), e)

\* C25 happens: 06 09 2A 86 48 86 F7 0D 01 01 0B was printed as
\* 1.2.840.113549.1.1.11
C25_Witness ==
    /\ LastPrimitive({ OID })
    /\ src = << 6, 9, 42, 134, 72, 134, 247, 13, 1, 1, 11 >>
    /\ last.out.kind = "oid"
    /\ last.out.value = << 1, 2, 840, 113549, 1, 1, 11 >>
    /\ rd = 11

\* IEEE 754: the fields of the single-precision pattern that denotes the
\* value of the half-precision pattern bits.  A half has sign s, exponent e
\* and mantissa m; for 0 < e < 31 its value is 2^(e-15) * (1 + m/2^10), for
\* e = 0 it is m * 2^-24, which with p the highest bit set in m is
\* 2^(p-24) * (1 + (m - 2^p)/2^p).  A NaN stays a NaN of the same sign:
\* mant holds 1 for any mantissa other than 0.
SameValueF32(bits) ==
    LET s == bits \div 32768
        e == (bits \div 1024) % 32
        m == bits % 1024
    IN  IF e = 31
        THEN [ sign |-> s, exp |-> 255, mant |-> IF m = 0 THEN 0 ELSE 1 ]
        ELSE IF e > 0
        THEN [ sign |-> s, exp |-> e - 15 + 127, mant |-> m * 2 ^ 13 ]
        ELSE IF m = 0
        THEN [ sign |-> s, exp |-> 0, mant |-> 0 ]
        ELSE LET p == CHOOSE q \in 0..9 : 2 ^ q <= m /\ m < 2 ^ (q + 1)
             IN  [ sign |-> s, exp |-> p - 24 + 127,
                   mant |-> (m - 2 ^ p) * 2 ^ (23 - p) ]

\* C26: f16_to_f32 maps every half-precision pattern to the single-precision
\* pattern of the same value: zeros keep their sign, normal numbers are
\* re-biased, infinities and NaNs stay infinities and NaNs of the same sign,
\* a subnormal half with mantissa m maps to m * 2^-24.
C26_HalfWidened ==
    (dumper = "cbor" /\ last.op = "read_value" /\ last.item.t = "Float16")
    => LET bits == ByteAt(last.start + 2) * 256 + ByteAt(last.start + 3)
           f    == last.item.f
           want == SameValueF32(bits)
       IN  /\ f.sign = want.sign
           /\ f.exp = want.exp
           /\ IF want.exp = 255 THEN (f.mant = 0) = (want.mant = 0)
              ELSE f.mant = want.mant

\* an ASCII byte that is not a control character: 20..7E
IsPlainAscii(byte) == byte >= 32 /\ byte <= 126

\* C27: an OCTET STRING payload is rendered as text only if every byte is
\* ASCII and not a control character, and as a hex dump if some byte is not;
\* the same number of bytes is consumed either way.
C27_TextOnlyIfPlainAscii ==
    (LastPrimitive({ OCTETSTRING }) /\ status = "running")
    => /\ rd = last.body + last.item.length
       /\ f_pos = last.fbody + last.item.length
       /\ last.out.kind \in { "text", "hex" }
       /\ last.out.kind = "text"
          => \A i \in 1..last.item.length : IsPlainAscii(LastPayload[i])
       /\ (\E i \in 1..last.item.length : ~IsPlainAscii(LastPayload[i]))
          => last.out.kind = "hex"

\* C28: the type-specific universal readers are applied only to primitive
\* items of the universal class; a primitive item of another class is
\* consumed as exactly item.length opaque bytes whatever its tag number.
C28_ReadersOnlyForUniversal ==
    (dumper = "asn1" /\ last.op = "prim"
       /\ ClassOf(last.item) # UNIVERSAL
       /\ Avail(last.body, last.item.length))
    => /\ status = "running"
       /\ last.out.kind = "hex"
       /\ rd = last.body + last.item.length

\* C29: for a primitive item with declared length 0, in particular INTEGER,
\* ENUMERATED and BIT STRING, print_asn1_object completes without a panic
\* and does not lower f_pos.
C29_ZeroLengthNoPanic ==
    (dumper = "asn1" /\ last.op = "prim" /\ last.item.length = 0)
    => /\ status # "panic"
       /\ f_pos >= last.fbody

\* C30: for every decoded text value that is valid UTF-8 print_item returns
\* without panicking; when the text is longer than 80 bytes and
\* print_all_data is off, the 80-byte prefix shown ends on a character
\* boundary: byte 81 does not continue a character.
C30_TextPrefixOnBoundary ==
    (dumper = "cbor" /\ last.op = "print" /\ last.item.t = "Text"
       /\ Utf8Valid(last.item.b))
    => /\ status # "panic"
       /\ (Len(last.item.b) > 80 /\ ~config.print_all_data)
          => last.item.b[81] \div 64 # 2

=============================================================================
